---- MODULE Spec2Model ----
(***************************************************************************)
(* A model of the flatmap maker's geometry extraction:                     *)
(*   - GeoJsonLayer.process_shape   (path flattening),     SpecShape       *)
(*   - GeoJsonLayer.add_geo_features_ (feature composition and region      *)
(*     partitioning),                                      SpecLayer       *)
(*   - Flatmap.make (feature ids, layers, detail rescaling), SpecMap       *)
(*     and, under weak fairness of its steps,            SpecMapFair     *)
(*   - GeoJsonLayer.process called repeatedly,             SpecProcess     *)
(*   - the transform of a shape nested in groups,          SpecNest        *)
(* Python's None is the empty tuple <<>> where the value is otherwise a    *)
(* tuple, and the string "None" where it is otherwise a record.            *)
(***************************************************************************)
EXTENDS Integers, Sequences, FiniteSets, TLC

VARIABLES
    \* ---- process_shape ----
    transform,      \* the transform argument of process_shape
    shape,          \* the shape: its extent and offset
    path_list,      \* the commands consumed so far, one sequence per path
    path_box,       \* (path.w, path.h), <<>> when None; the same for every path
    spc,            \* position: "paths" (for path ...), "cmds" (for c ...), "done", "error"
    bound,          \* whether the per-path locals have been assigned
    T,              \* transform@Transform(shape, bbox).matrix()
    moved, first_point, current_point, closed,
    coordinates,
    large_arcs,     \* the large_arc_flag passed for each arcTo, in order
    geometry        \* the returned geometry, "None" until process_shape returns

shapeVars == <<transform, shape, path_list, path_box, spc, bound, T, moved,
               first_point, current_point, closed, coordinates, large_arcs,
               geometry>>

VARIABLES
    \* ---- Flatmap.make ----
    mpc,                \* position in make()
    errorCheck,         \* options.get('errorCheck', False)
    last_feature_id,
    features,           \* the Feature objects, by feature_id
    layers,             \* the layer objects, in creation order
    source_layers,      \* source.layers: indexes into layers
    layer_dict,         \* the OrderedDict's values, in order: indexes into layers
    visible_layer_count,
    id_to_feature, class_to_feature,
    extent,             \* whether self.__extent has been set
    reg_i,              \* the layer being registered (source or detail layers)
    scan_i,             \* __add_details: the layer of layer_dict being scanned
    detail_layers,      \* __add_details: the detail layers created, not yet registered
    detail,             \* the locals of the running __add_detail_features call
    issued,             \* every id new_feature returned, in order
    steps,              \* the steps of make() begun, in order
    tippe_inputs,       \* self.__tippe_inputs
    geojson_layers,     \* what GeoJSONOutput saved, over all layers
    merr                \* the exception that ended make(), "" when none

mapVars == <<mpc, errorCheck, last_feature_id, features, layers, source_layers,
             layer_dict, visible_layer_count, id_to_feature, class_to_feature,
             extent, reg_i, scan_i, detail_layers, detail, issued, steps,
             tippe_inputs, geojson_layers, merr>>

\* The state of GeoJsonLayer.add_geo_features_.
VARIABLES
    lpc,                \* "idle", "shapes", "classify", "divide", "regions",
                        \* "emit", "done", "error"
    feature_list,       \* the `features` argument
    li,                 \* the position of the running loop
    divided_area, child_properties, group_features, output_group_feature,
    group_properties, dividers, regions, tolerance,
    polygons,           \* what polygonize yields, in the order it yields it
    polygonized,        \* what polygonize yielded in the first run of process()
    regions_from,       \* how many group features came before the region polygons
    region_id,          \* self._region_id
    geo_features,       \* self._geo_features
    emitted_from,       \* for each of geo_features, its position in group_features
    map_features,       \* self._map_features
    annotations,        \* self._annotations
    runs,               \* self._geo_features at the end of each run of process()
    lerr                \* the exception that ended the call, "" when none

layerVars == <<lpc, feature_list, li, divided_area, child_properties,
               group_features, output_group_feature, group_properties, dividers,
               regions, tolerance, polygons, polygonized, regions_from, region_id,
               geo_features, emitted_from, map_features, annotations, runs,
               lerr>>

\* The descent of GeoJsonLayer.process through nested groups to a shape.
VARIABLES
    npc,                \* "idle", "shapes" (inside process_shape_list), "done"
    layer_transform,    \* self._transform
    group_path,         \* Transform(group).matrix() of the groups entered, outermost first
    group_transform,    \* the `transform` argument at the current depth
    shape_transform,    \* Transform(shape, bbox).matrix() of the shape reached
    shape_T             \* T of process_shape

nestVars == <<npc, layer_transform, group_path, group_transform, shape_transform,
              shape_T>>

vars == <<shapeVars, mapVars, layerVars, nestVars>>

\* what a step of process_shape, of Flatmap.make, of add_geo_features_ and of
\* the descent leaves alone
notShape == <<mapVars, layerVars, nestVars>>
notMap == <<shapeVars, layerVars, nestVars>>
notLayer == <<shapeVars, mapVars, nestVars>>
notNest == <<shapeVars, mapVars, layerVars>>

\* ------------------------------------------------------------------------
\* Bounds of the model
\* ------------------------------------------------------------------------

\* Path commands in one shape, over all its paths.
MaxCmds == 4
\* Paths in a shape's path list.
MaxPaths == 2
\* Parametric steps of a sampled Bezier curve (the code samples 100).
Samples == 2
\* Features the source creates, over all its layers.
MaxSourceFeatures == 4
\* Feature ids new_feature hands out before the model stops a build.
MaxFeatureId == 8
\* Features in the list given to add_geo_features_.
MaxFeatures == 3
\* Groups nested in one another.
MaxDepth == 3
\* Runs of GeoJsonLayer.process() on one layer.
MaxRuns == 2

None == <<>>

\* ------------------------------------------------------------------------
\* Transforms: the 3x3 matrix [[sx, 0, tx], [0, sy, ty], [0, 0, 1]]
\* ------------------------------------------------------------------------

Matrix(sx, sy, tx, ty) == [sx |-> sx, sy |-> sy, tx |-> tx, ty |-> ty]

\* a @ b
MatMul(a, b) ==
    Matrix(a.sx * b.sx, a.sy * b.sy, a.sx * b.tx + a.tx, a.sy * b.ty + a.ty)

\* (transform@[point[0], point[1], 1.0])[:2]
transform_point(t, point) ==
    <<t.sx * point[1] + t.tx, t.sy * point[2] + t.ty>>

\* Transform(shape, bbox).matrix(): the shape's extent over its bounding box,
\* placed at the shape's offset.
ShapeMatrix(shp, bbox) ==
    Matrix(shp.width \div bbox[1], shp.height \div bbox[2], shp.off[1], shp.off[2])

\* ------------------------------------------------------------------------
\* Bezier curves: a curve is the tuple of its control points
\* ------------------------------------------------------------------------

Pow(b, e) == IF e = 0 THEN 1 ELSE IF e = 1 THEN b ELSE IF e = 2 THEN b * b ELSE b * b * b

\* One coordinate of the curve at parameter k/n.
BezierCoord(c, k, n) ==
    IF Len(c) = 3
    THEN (Pow(n - k, 2) * c[1] + 2 * (n - k) * k * c[2] + Pow(k, 2) * c[3])
            \div Pow(n, 2)
    ELSE (Pow(n - k, 3) * c[1] + 3 * Pow(n - k, 2) * k * c[2]
            + 3 * (n - k) * Pow(k, 2) * c[3] + Pow(k, 3) * c[4]) \div Pow(n, 3)

pointAtTime(bz, k, n) ==
    <<BezierCoord([i \in 1..Len(bz) |-> bz[i][1]], k, n),
      BezierCoord([i \in 1..Len(bz) |-> bz[i][2]], k, n)>>

\* bz.sample(samples): the points at 0, 1/samples, ..., 1
transform_bezier_samples(t, bz) ==
    [i \in 1..(Samples + 1) |-> transform_point(t, pointAtTime(bz, i - 1, Samples))]

\* ellipse_point(a, b, theta), theta in quarter turns
ellipse_point(a, b, theta) ==
    LET q == theta % 4
    IN  IF q = 0 THEN <<a, 0>>
        ELSE IF q = 1 THEN <<0, b>>
        ELSE IF q = 2 THEN <<0 - a, 0>>
        ELSE <<0, 0 - b>>

\* pi, in quarter turns
Pi == 2

\* cubic_beziers_from_arc(r, 0, large_arc_flag, 1, p_from, p_to): no curve
\* when the end points coincide, one cubic for a small arc, two for a large one.
cubic_beziers_from_arc(r, large_arc_flag, p_from, p_to) ==
    IF p_from = p_to THEN <<>>
    ELSE IF large_arc_flag = 0
    THEN << <<p_from, <<p_from[1], p_to[2]>>, <<p_from[1], p_to[2]>>, p_to>> >>
    ELSE LET mid == <<(p_from[1] + p_to[1]) \div 2 + r[2],
                      (p_from[2] + p_to[2]) \div 2 + r[1]>>
         IN  << <<p_from, <<p_from[1], mid[2]>>, <<p_from[1], mid[2]>>, mid>>,
                <<mid, <<p_to[1], mid[2]>>, <<p_to[1], mid[2]>>, p_to>> >>

\* The samples of every curve of a list, in order.
RECURSIVE SampleAll(_, _)
SampleAll(t, beziers) ==
    IF beziers = <<>> THEN <<>>
    ELSE transform_bezier_samples(t, Head(beziers)) \o SampleAll(t, Tail(beziers))

\* ------------------------------------------------------------------------
\* Inputs of process_shape
\* ------------------------------------------------------------------------

Points == {<<0, 0>>, <<8, 0>>}
ControlPoint == <<8, 8>>
CubicEnds == {<<8, 0>>}
QuadEnds == {<<0, 0>>}
Radii == {<<8, 4>>}
StartAngles == {0}
SweepAngles == {0 - 2, 1, 2}
Shapes == {[width |-> 16, height |-> 16, off |-> <<0, 0>>]}
\* The transform argument with the paths' declared (w, h): the identity with
\* paths that declare none, and a flipped, translated layer transform with
\* paths that declare a box half the shape's extent.
Identity == Matrix(1, 1, 0, 0)
TransformsAndBoxes == {<<Identity, None>>, <<Matrix(1, 0 - 1, 0 - 8, 8), <<8, 8>> >>}

Cmd(tag, pts, arc) == [tag |-> tag, pts |-> pts, arc |-> arc]

NumCmds ==
    LET RECURSIVE Sum(_)
        Sum(i) == IF i = 0 THEN 0 ELSE Len(path_list[i]) + Sum(i - 1)
    IN  Sum(Len(path_list))

\* The commands consumed so far, over all paths, in order.
AllCmds ==
    LET RECURSIVE Cat(_)
        Cat(i) == IF i = 0 THEN <<>> ELSE Cat(i - 1) \o path_list[i]
    IN  Cat(Len(path_list))

Consume(c) ==
    path_list' = [path_list EXCEPT ![Len(path_list)] = Append(@, c)]

\* ------------------------------------------------------------------------
\* process_shape
\* ------------------------------------------------------------------------

ShapeInit ==
    /\ \E tb \in TransformsAndBoxes : transform = tb[1] /\ path_box = tb[2]
    /\ shape \in Shapes
    /\ path_list = <<>>
    /\ spc = "paths"
    /\ bound = FALSE
    /\ T = Identity
    /\ moved = FALSE
    /\ first_point = None
    /\ current_point = None
    /\ closed = FALSE
    /\ coordinates = <<>>
    /\ large_arcs = <<>>
    /\ geometry = "None"

\* no shape is being flattened
ShapeIdle ==
    /\ transform = Identity
    /\ path_box = None
    /\ shape \in Shapes
    /\ path_list = <<>>
    /\ spc = "idle"
    /\ bound = FALSE
    /\ T = Identity
    /\ moved = FALSE
    /\ first_point = None
    /\ current_point = None
    /\ closed = FALSE
    /\ coordinates = <<>>
    /\ large_arcs = <<>>
    /\ geometry = "None"

\* for path in pptx_geometry.path_list: the next path, its transform and locals
BeginPath ==
    /\ spc = "paths"
    /\ Len(path_list) < MaxPaths
    /\ LET bbox == IF path_box = None THEN <<shape.width, shape.height>>
                   ELSE path_box
       IN  T' = MatMul(transform, ShapeMatrix(shape, bbox))
    /\ path_list' = Append(path_list, <<>>)
    /\ moved' = FALSE
    /\ first_point' = None
    /\ current_point' = None
    /\ closed' = FALSE
    /\ bound' = TRUE
    /\ spc' = "cmds"
    /\ UNCHANGED <<transform, shape, path_box, coordinates, large_arcs, geometry>>
    /\ UNCHANGED notShape

\* for c in path.getchildren(): exhausted
EndPath ==
    /\ spc = "cmds"
    /\ spc' = "paths"
    /\ UNCHANGED <<transform, shape, path_list, path_box, bound, T, moved,
                   first_point, current_point, closed, coordinates, large_arcs,
                   geometry>>
    /\ UNCHANGED notShape

\* A command that reads current_point while it is None raises TypeError.
Raise ==
    /\ spc' = "error"
    /\ UNCHANGED <<transform, shape, path_box, bound, T, moved, first_point,
                   current_point, closed, coordinates, large_arcs, geometry>>

large_arc_flag(swAng) == IF swAng >= Pi THEN 1 ELSE 0

ArcTo ==
    /\ spc = "cmds" /\ NumCmds < MaxCmds
    /\ \E r \in Radii, stAng \in StartAngles, swAng \in SweepAngles :
        /\ Consume(Cmd("arcTo", <<>>, <<r[1], r[2], stAng, swAng>>))
        /\ IF current_point = None
           THEN Raise
           ELSE LET p1 == ellipse_point(r[1], r[2], stAng)
                    p2 == ellipse_point(r[1], r[2], stAng + swAng)
                    pt == <<current_point[1] - p1[1] + p2[1],
                            current_point[2] - p1[2] + p2[2]>>
                    beziers == cubic_beziers_from_arc(r, large_arc_flag(swAng),
                                                      current_point, pt)
                IN  /\ coordinates' = coordinates \o SampleAll(T, beziers)
                    /\ large_arcs' = Append(large_arcs, large_arc_flag(swAng))
                    /\ current_point' = pt
                    /\ UNCHANGED <<transform, shape, path_box, spc, bound, T,
                                   moved, first_point, closed, geometry>>
    /\ UNCHANGED notShape

\* a close that appends the first point wherever the current point is
CloseAlwaysAppends == first_point # None

\* whether close appends the first point of the subpath
CloseAppends == first_point # None /\ current_point # first_point

Close ==
    /\ spc = "cmds" /\ NumCmds < MaxCmds
    /\ Consume(Cmd("close", <<>>, <<>>))
    /\ coordinates' = IF CloseAppends
                      THEN Append(coordinates, transform_point(T, first_point))
                      ELSE coordinates
    /\ closed' = TRUE
    /\ first_point' = None
    /\ UNCHANGED <<transform, shape, path_box, spc, bound, T, moved,
                   current_point, large_arcs, geometry>>
    /\ UNCHANGED notShape

\* cubicBezTo (three points) and quadBezTo (two points)
BezTo(tag, pts) ==
    /\ spc = "cmds" /\ NumCmds < MaxCmds
    /\ Consume(Cmd(tag, pts, <<>>))
    /\ IF current_point = None
       THEN Raise
       ELSE /\ coordinates' = coordinates
                    \o transform_bezier_samples(T, <<current_point>> \o pts)
            /\ current_point' = pts[Len(pts)]
            /\ UNCHANGED <<transform, shape, path_box, spc, bound, T, moved,
                           first_point, closed, large_arcs, geometry>>
    /\ UNCHANGED notShape

CubicBezTo == \E pt \in CubicEnds : BezTo("cubicBezTo", <<ControlPoint, ControlPoint, pt>>)

QuadBezTo == \E pt \in QuadEnds : BezTo("quadBezTo", <<ControlPoint, pt>>)

\* whether lnTo emits the current point before its own
LnToEmitsCurrent == moved

LnTo ==
    /\ spc = "cmds" /\ NumCmds < MaxCmds
    /\ \E pt \in Points :
        /\ Consume(Cmd("lnTo", <<pt>>, <<>>))
        /\ coordinates' =
              (IF LnToEmitsCurrent
               THEN Append(coordinates, transform_point(T, current_point))
               ELSE coordinates) \o <<transform_point(T, pt)>>
        /\ current_point' = pt
    /\ moved' = FALSE
    /\ UNCHANGED <<transform, shape, path_box, spc, bound, T, first_point,
                   closed, large_arcs, geometry>>
    /\ UNCHANGED notShape

MoveTo ==
    /\ spc = "cmds" /\ NumCmds < MaxCmds
    /\ \E pt \in Points :
        /\ Consume(Cmd("moveTo", <<pt>>, <<>>))
        /\ first_point' = IF first_point = None THEN pt ELSE first_point
        /\ current_point' = pt
    /\ moved' = TRUE
    /\ UNCHANGED <<transform, shape, path_box, spc, bound, T, closed,
                   coordinates, large_arcs, geometry>>
    /\ UNCHANGED notShape

\* an unknown command that ends the loop over the path's commands
UnknownEndsPath ==
    /\ spc = "cmds" /\ NumCmds < MaxCmds
    /\ Consume(Cmd("unknown", <<>>, <<>>))
    /\ spc' = "paths"
    /\ UNCHANGED <<transform, shape, path_box, bound, T, moved, first_point,
                   current_point, closed, coordinates, large_arcs, geometry>>
    /\ UNCHANGED notShape

\* else: print('Unknown path element ...')
UnknownCmd ==
    /\ spc = "cmds" /\ NumCmds < MaxCmds
    /\ Consume(Cmd("unknown", <<>>, <<>>))
    /\ UNCHANGED <<transform, shape, path_box, spc, bound, T, moved,
                   first_point, current_point, closed, coordinates, large_arcs,
                   geometry>>
    /\ UNCHANGED notShape

\* return Polygon(coordinates) if closed else LineString(coordinates);
\* `closed` is unbound, and the read raises, when the path list was empty.
ReturnGeometry ==
    /\ spc = "paths"
    /\ IF bound
       THEN /\ geometry' = IF closed THEN "Polygon" ELSE "LineString"
            /\ spc' = "done"
       ELSE /\ geometry' = geometry
            /\ spc' = "error"
    /\ UNCHANGED <<transform, shape, path_list, path_box, bound, T, moved,
                   first_point, current_point, closed, coordinates, large_arcs>>
    /\ UNCHANGED notShape

ShapeNext ==
    \/ BeginPath
    \/ EndPath
    \/ ArcTo
    \/ Close
    \/ CubicBezTo
    \/ QuadBezTo
    \/ LnTo
    \/ MoveTo
    \/ UnknownCmd
    \/ ReturnGeometry

\* ------------------------------------------------------------------------
\* Property dictionaries: functions from keys to values
\* ------------------------------------------------------------------------

EmptyDict == <<>>

has_property(d, k) == k \in DOMAIN d

set_property(d, k, v) == [x \in DOMAIN d \cup {k} |-> IF x = k THEN v ELSE d[x]]

\* p.update(q)
DictUpdate(p, q) ==
    [k \in DOMAIN p \cup DOMAIN q |-> IF k \in DOMAIN q THEN q[k] ELSE p[k]]

\* ------------------------------------------------------------------------
\* Flatmap: features, layers and the feature id counter
\* ------------------------------------------------------------------------

\* a counter that starts again after three ids
WrappedFeatureId(last) == (last % 3) + 1

\* self.__last_feature_id += 1
NextFeatureId(last) == last + 1

\* Feature(self.__last_feature_id, geometry, properties)
new_feature(id, geom, properties) ==
    [feature_id |-> id, geometry |-> geom, properties |-> properties]

\* save_feature_id: the two dictionaries after the call
SavedIds(feature) ==
    IF has_property(feature.properties, "id")
    THEN set_property(id_to_feature, feature.properties["id"], feature.feature_id)
    ELSE id_to_feature

SavedClasses(feature) ==
    IF has_property(feature.properties, "class")
    THEN LET c == feature.properties["class"]
         IN  set_property(class_to_feature, c,
                 Append(IF c \in DOMAIN class_to_feature THEN class_to_feature[c]
                        ELSE <<>>, feature.feature_id))
    ELSE class_to_feature

is_duplicate_feature_id(id) == id \in DOMAIN id_to_feature

\* The layers registered under an id (at most one is ever registered).
RegisteredWithId(id) == {i \in 1..Len(layer_dict) : layers[layer_dict[i]].id = id}

\* a lookup that takes the first layer of the map when the id is not registered
FirstLayerWhenMissing(id) ==
    IF RegisteredWithId(id) = {} THEN 1
    ELSE layer_dict[CHOOSE i \in RegisteredWithId(id) : TRUE]

\* self.__layer_dict.get(id): the index of the layer, 0 when None
LayerDictGet(id) ==
    IF RegisteredWithId(id) = {} THEN 0
    ELSE layer_dict[CHOOSE i \in RegisteredWithId(id) : TRUE]

\* layer.detail_features: the layer's features that have a `details` property
detail_features(layer) ==
    SelectSeq(layer.features, LAMBDA f : has_property(features[f].properties, "details"))

\* layer.features_with_id.get(id): the feature id, 0 when None
FeaturesWithIdGet(layer, id) ==
    LET hits == {j \in 1..Len(layer.features) :
                    /\ has_property(features[layer.features[j]].properties, "id")
                    /\ features[layer.features[j]].properties["id"] = id}
    IN  IF id = "None" \/ hits = {} THEN 0
        ELSE layer.features[CHOOSE j \in hits : \A k \in hits : k <= j]

\* FeatureLayer(id, source)
FeatureLayer(id, source, hidden) ==
    [id |-> id, source |-> source, hidden |-> hidden, features |-> <<>>,
     outline_feature_id |-> "None"]

\* ------------------------------------------------------------------------
\* Geometry of the map's features: a form inside a bounding rectangle
\* <<x0, y0, x1, y1>>
\* ------------------------------------------------------------------------

Geom(form, box) == [form |-> form, box |-> box]

\* cv2.getPerspectiveTransform(src, dst) of the two minimum rotated rectangles,
\* corner to corner: the transform is kept as the two rectangles.
getPerspectiveTransform(src, dst) == <<src, dst>>

MapCoord(v, s0, s1, d0, d1) == d0 + ((v - s0) * (d1 - d0)) \div (s1 - s0)

\* shapely.affinity.affine_transform(geometry, transform)
affine_transform(geom, m) ==
    LET s == m[1]
        d == m[2]
    IN  Geom(geom.form,
             <<MapCoord(geom.box[1], s[1], s[3], d[1], d[3]),
               MapCoord(geom.box[2], s[2], s[4], d[2], d[4]),
               MapCoord(geom.box[3], s[1], s[3], d[1], d[3]),
               MapCoord(geom.box[4], s[2], s[4], d[2], d[4])>>)

GeomArea(geom) == (geom.box[3] - geom.box[1]) * (geom.box[4] - geom.box[2])

GeomLength(geom) == 2 * ((geom.box[3] - geom.box[1]) + (geom.box[4] - geom.box[2]))

\* mercator_transform(geometry): the geometry in longitude and latitude
mercator_transform(geom) == [crs |-> "epsg:4326", of |-> geom]

\* ------------------------------------------------------------------------
\* What the source makes of a slide: its layers and their features
\* ------------------------------------------------------------------------

SourceId == "s"
LayerNames == <<"base", "hi", "hi2">>
\* details(ID, ZOOM) markup
DetailMarkups == {<<"hi", 6>>, <<"hi2", 8>>}
MapAreas == {1048576}

\* parse_markup of details(ID, ZOOM)
DetailsMarkup(d) == [details |-> d[1], maxzoom |-> d[2] - 1]

ShapeKinds ==
    {[kind |-> "plain", markup |-> EmptyDict, geometry |-> Geom("plain", <<8, 0, 16, 8>>)],
     [kind |-> "outline", markup |-> EmptyDict, geometry |-> Geom("outline", <<0, 0, 16, 16>>)]}
    \cup {[kind |-> "placeholder", markup |-> DetailsMarkup(d),
           geometry |-> Geom("placeholder", <<0, 0, 8, 8>>)] : d \in DetailMarkups}

\* The properties the source gives a shape: a class for a plain shape, an id
\* of its own for the others.
SourceProperties(k, n) ==
    DictUpdate(DictUpdate(("tile-layer" :> "features"), k.markup),
               IF k.kind = "plain" THEN [class |-> "c"]
               ELSE [id |-> "f" \o ToString(n)])

NoDetail ==
    [layer |-> 0, detail_layer |-> 0, lowres |-> <<>>, low_i |-> 0, hires |-> 0,
     hires_j |-> 0, extra |-> <<>>, transform |-> <<>>, minzoom |-> 0, depth |-> 0]

\* ------------------------------------------------------------------------
\* Flatmap.make
\* ------------------------------------------------------------------------

MapInit ==
    /\ mpc = "process"
    /\ errorCheck \in BOOLEAN
    /\ last_feature_id = 0
    /\ features = EmptyDict
    /\ layers = <<>>
    /\ source_layers = <<>>
    /\ layer_dict = <<>>
    /\ visible_layer_count = 0
    /\ id_to_feature = EmptyDict
    /\ class_to_feature = EmptyDict
    /\ extent = FALSE
    /\ reg_i = 1
    /\ scan_i = 1
    /\ detail_layers = <<>>
    /\ detail = NoDetail
    /\ issued = <<>>
    /\ steps = <<"process_sources">>
    /\ tippe_inputs = <<>>
    /\ geojson_layers = <<>>
    /\ merr = ""

\* no map is being made
MapIdle ==
    /\ mpc = "idle"
    /\ errorCheck = FALSE
    /\ last_feature_id = 0
    /\ features = EmptyDict
    /\ layers = <<>>
    /\ source_layers = <<>>
    /\ layer_dict = <<>>
    /\ visible_layer_count = 0
    /\ id_to_feature = EmptyDict
    /\ class_to_feature = EmptyDict
    /\ extent = FALSE
    /\ reg_i = 1
    /\ scan_i = 1
    /\ detail_layers = <<>>
    /\ detail = NoDetail
    /\ issued = <<>>
    /\ steps = <<>>
    /\ tippe_inputs = <<>>
    /\ geojson_layers = <<>>
    /\ merr = ""

MapRaise(e) ==
    /\ mpc' = "error"
    /\ merr' = e

\* the names a source may give its k-th layer: the k-th of LayerNames, or,
\* for the last layer, the name of the layer before it over again
LayerNamesAt(k) ==
    {LayerNames[k]} \cup
    (IF k > 1 /\ k = Len(LayerNames) THEN {LayerNames[k - 1]} ELSE {})

\* source.process(): the source begins another layer
SourceNewLayer ==
    /\ mpc = "process"
    /\ Len(layers) < Len(LayerNames)
    /\ \E hidden \in BOOLEAN, name \in LayerNamesAt(Len(layers) + 1) :
        layers' = Append(layers,
                     FeatureLayer(SourceId \o "-" \o name, SourceId, hidden))
    /\ source_layers' = Append(source_layers, Len(layers) + 1)
    /\ UNCHANGED <<mpc, errorCheck, last_feature_id, features, layer_dict,
                   visible_layer_count, id_to_feature, class_to_feature, extent,
                   reg_i, scan_i, detail_layers, detail, issued, steps,
                   tippe_inputs, geojson_layers, merr>>
    /\ UNCHANGED notMap

\* source.process(): a shape of the current layer becomes a feature
SourceNewFeature ==
    /\ mpc = "process"
    /\ layers # <<>>
    /\ Len(issued) < MaxSourceFeatures
    /\ \E k \in ShapeKinds :
        LET id == NextFeatureId(last_feature_id)
            f == new_feature(id, k.geometry, SourceProperties(k, id))
            l == Len(layers)
        IN  /\ last_feature_id' = id
            /\ issued' = Append(issued, id)
            /\ features' = set_property(features, id, f)
            /\ layers' = [layers EXCEPT
                  ![l].features = Append(@, id),
                  ![l].outline_feature_id =
                      IF k.kind = "outline" /\ @ = "None" THEN f.properties["id"] ELSE @]
            /\ id_to_feature' = SavedIds(f)
            /\ class_to_feature' = SavedClasses(f)
    /\ UNCHANGED <<mpc, errorCheck, source_layers, layer_dict, visible_layer_count,
                   extent, reg_i, scan_i, detail_layers, detail, steps,
                   tippe_inputs, geojson_layers, merr>>
    /\ UNCHANGED notMap

\* source.process() returns
SourceProcessed ==
    /\ mpc = "process"
    /\ mpc' = "register"
    /\ reg_i' = 1
    /\ UNCHANGED <<errorCheck, last_feature_id, features, layers, source_layers,
                   layer_dict, visible_layer_count, id_to_feature, class_to_feature,
                   extent, scan_i, detail_layers, detail, issued, steps,
                   tippe_inputs, geojson_layers, merr>>
    /\ UNCHANGED notMap

\* whether __add_layer refuses the layer
DuplicateLayerId(l) == RegisteredWithId(layers[l].id) # {}

\* a registration that puts the layer in whatever is registered already
AddLayerAnyway(l) ==
    /\ layer_dict' = Append(layer_dict, l)
    /\ visible_layer_count' =
          IF layers[l].hidden THEN visible_layer_count
          ELSE visible_layer_count + 1
    /\ reg_i' = reg_i + 1
    /\ UNCHANGED <<mpc, merr>>

\* __add_layer(layer)
AddLayer(l) ==
    IF DuplicateLayerId(l)
    THEN /\ MapRaise("KeyError: Duplicate layer id")
         /\ UNCHANGED <<layer_dict, visible_layer_count, reg_i>>
    ELSE /\ layer_dict' = Append(layer_dict, l)
         /\ visible_layer_count' =
               IF layers[l].hidden THEN visible_layer_count
               ELSE visible_layer_count + 1
         /\ reg_i' = reg_i + 1
         /\ UNCHANGED <<mpc, merr>>

\* for layer in source.layers: self.__add_layer(layer)
RegisterSourceLayer ==
    /\ mpc = "register"
    /\ reg_i <= Len(source_layers)
    /\ AddLayer(source_layers[reg_i])
    /\ UNCHANGED <<errorCheck, last_feature_id, features, layers, source_layers,
                   id_to_feature, class_to_feature, extent, scan_i, detail_layers,
                   detail, issued, steps, tippe_inputs, geojson_layers>>
    /\ UNCHANGED notMap

\* the end of __process_sources, then make() goes on
SourcesDone ==
    /\ mpc = "register"
    /\ reg_i > Len(source_layers)
    /\ extent' = TRUE
    /\ IF visible_layer_count = 0
       THEN /\ MapRaise("ValueError: No map layers in sources...")
            /\ UNCHANGED <<steps, scan_i>>
       ELSE IF errorCheck
       THEN /\ mpc' = "finish"
            /\ steps' = Append(steps, "finish_make")
            /\ UNCHANGED <<merr, scan_i>>
       ELSE /\ mpc' = "scan"
            /\ scan_i' = 1
            /\ steps' = Append(steps, "add_details")
            /\ UNCHANGED merr
    /\ UNCHANGED <<errorCheck, last_feature_id, features, layers, source_layers,
                   layer_dict, visible_layer_count, id_to_feature, class_to_feature,
                   reg_i, detail_layers, detail, issued, tippe_inputs,
                   geojson_layers>>
    /\ UNCHANGED notMap

\* a scan that registers each detail layer as soon as it has made it
ScanAndRegister ==
    /\ mpc = "scan"
    /\ scan_i <= Len(layer_dict)
    /\ LET l == layer_dict[scan_i]
           layer == layers[l]
       IN  IF ~layer.hidden /\ detail_features(layer) # <<>>
           THEN /\ layers' = Append(layers,
                                FeatureLayer(layer.id \o "-details", layer.source, FALSE))
                /\ detail_layers' = Append(detail_layers, Len(layers) + 1)
                /\ layer_dict' = Append(layer_dict, Len(layers) + 1)
                /\ visible_layer_count' = visible_layer_count + 1
                /\ detail' = [NoDetail EXCEPT !.layer = l,
                                              !.detail_layer = Len(layers) + 1,
                                              !.lowres = detail_features(layer),
                                              !.low_i = 1]
                /\ mpc' = "lookup"
                /\ UNCHANGED scan_i
           ELSE /\ scan_i' = scan_i + 1
                /\ UNCHANGED <<layers, detail_layers, detail, mpc, layer_dict,
                               visible_layer_count>>
    /\ UNCHANGED <<errorCheck, last_feature_id, features, source_layers,
                   id_to_feature, class_to_feature, extent,
                   reg_i, issued, steps, tippe_inputs, geojson_layers, merr>>
    /\ UNCHANGED notMap

\* __add_details: for layer in self.__layer_dict.values()
ScanLayer ==
    /\ mpc = "scan"
    /\ scan_i <= Len(layer_dict)
    /\ LET l == layer_dict[scan_i]
           layer == layers[l]
       IN  IF ~layer.hidden /\ detail_features(layer) # <<>>
           THEN /\ layers' = Append(layers,
                                FeatureLayer(layer.id \o "-details", layer.source, FALSE))
                /\ detail_layers' = Append(detail_layers, Len(layers) + 1)
                /\ detail' = [NoDetail EXCEPT !.layer = l,
                                              !.detail_layer = Len(layers) + 1,
                                              !.lowres = detail_features(layer),
                                              !.low_i = 1]
                /\ mpc' = "lookup"
                /\ UNCHANGED scan_i
           ELSE /\ scan_i' = scan_i + 1
                /\ UNCHANGED <<layers, detail_layers, detail, mpc>>
    /\ UNCHANGED <<errorCheck, last_feature_id, features, source_layers, layer_dict,
                   visible_layer_count, id_to_feature, class_to_feature, extent,
                   reg_i, issued, steps, tippe_inputs, geojson_layers, merr>>
    /\ UNCHANGED notMap

\* __add_details: every layer has been scanned
ScanDone ==
    /\ mpc = "scan"
    /\ scan_i > Len(layer_dict)
    /\ mpc' = "add_detail_layers"
    /\ reg_i' = 1
    /\ UNCHANGED <<errorCheck, last_feature_id, features, layers, source_layers,
                   layer_dict, visible_layer_count, id_to_feature, class_to_feature,
                   extent, scan_i, detail_layers, detail, issued, steps,
                   tippe_inputs, geojson_layers, merr>>
    /\ UNCHANGED notMap

\* '{}-{}'.format(layer.source.id, feature.get_property('details'))
HiresLayerId(layer, feature) == layer.source \o "-" \o feature.properties["details"]

\* KeyError("Cannot find details' layer '{}'".format(feature.get_property('details')))
MissingLayer(feature) ==
    "KeyError: Cannot find details' layer '" \o feature.properties["details"] \o "'"

\* KeyError("Cannot find outline feature '{}'".format(hires_layer.outline_feature_id))
MissingOutline(hires_layer) ==
    "KeyError: Cannot find outline feature '" \o hires_layer.outline_feature_id \o "'"

\* __add_detail_features: for feature in lowres_features, up to the loop over
\* the high-resolution layer's features
DetailLookup ==
    /\ mpc = "lookup"
    /\ detail.low_i <= Len(detail.lowres)
    /\ LET fid == detail.lowres[detail.low_i]
           feature == features[fid]
           hires == LayerDictGet(HiresLayerId(layers[detail.layer], feature))
       IN  IF hires = 0
           THEN /\ MapRaise(MissingLayer(feature))
                /\ UNCHANGED <<features, detail>>
           ELSE LET outline == FeaturesWithIdGet(layers[hires],
                                                 layers[hires].outline_feature_id)
                IN  IF outline = 0
                    THEN /\ MapRaise(MissingOutline(layers[hires]))
                         /\ UNCHANGED <<features, detail>>
                    ELSE LET M == getPerspectiveTransform(
                                      features[outline].geometry.box,
                                      feature.geometry.box)
                         IN  /\ features' = [features EXCEPT ![fid].geometry =
                                    affine_transform(features[outline].geometry, M)]
                             /\ detail' = [detail EXCEPT
                                    !.hires = hires, !.hires_j = 1, !.transform = M,
                                    !.minzoom = feature.properties["maxzoom"] + 1]
                             /\ mpc' = "clone"
                             /\ UNCHANGED merr
    /\ UNCHANGED <<errorCheck, last_feature_id, layers, source_layers, layer_dict,
                   visible_layer_count, id_to_feature, class_to_feature, extent,
                   reg_i, scan_i, detail_layers, issued, steps, tippe_inputs,
                   geojson_layers>>
    /\ UNCHANGED notMap

\* for hires_feature in hires_layer.features: one scaled copy
DetailClone ==
    /\ mpc = "clone"
    /\ detail.hires_j <= Len(layers[detail.hires].features)
    /\ Len(issued) < MaxFeatureId
    /\ LET hires_feature == features[layers[detail.hires].features[detail.hires_j]]
           id == NextFeatureId(last_feature_id)
           f == new_feature(id, affine_transform(hires_feature.geometry, detail.transform),
                    set_property(set_property(hires_feature.properties,
                                              "layer", layers[detail.layer].id),
                                 "minzoom", detail.minzoom))
       IN  /\ last_feature_id' = id
           /\ issued' = Append(issued, id)
           /\ features' = set_property(features, id, f)
           /\ layers' = [layers EXCEPT ![detail.detail_layer].features = Append(@, id)]
           /\ id_to_feature' = SavedIds(f)
           /\ class_to_feature' = SavedClasses(f)
           /\ detail' = [detail EXCEPT
                 !.hires_j = @ + 1,
                 !.extra = IF has_property(f.properties, "details")
                           THEN Append(@, id) ELSE @]
    /\ UNCHANGED <<mpc, errorCheck, source_layers, layer_dict, visible_layer_count,
                   extent, reg_i, scan_i, detail_layers, steps, tippe_inputs,
                   geojson_layers, merr>>
    /\ UNCHANGED notMap

\* the high-resolution layer's features are exhausted: the next low-resolution one
DetailCloned ==
    /\ mpc = "clone"
    /\ detail.hires_j > Len(layers[detail.hires].features)
    /\ mpc' = "lookup"
    /\ detail' = [detail EXCEPT !.low_i = @ + 1]
    /\ UNCHANGED <<errorCheck, last_feature_id, features, layers, source_layers,
                   layer_dict, visible_layer_count, id_to_feature, class_to_feature,
                   extent, reg_i, scan_i, detail_layers, issued, steps,
                   tippe_inputs, geojson_layers, merr>>
    /\ UNCHANGED notMap

\* if extra_details: self.__add_detail_features(layer, detail_layer, extra_details)
DetailRecurse ==
    /\ mpc = "lookup"
    /\ detail.low_i > Len(detail.lowres)
    /\ detail.extra # <<>>
    /\ detail' = [detail EXCEPT !.lowres = detail.extra, !.low_i = 1,
                                !.extra = <<>>, !.depth = @ + 1]
    /\ UNCHANGED <<mpc, errorCheck, last_feature_id, features, layers, source_layers,
                   layer_dict, visible_layer_count, id_to_feature, class_to_feature,
                   extent, reg_i, scan_i, detail_layers, issued, steps,
                   tippe_inputs, geojson_layers, merr>>
    /\ UNCHANGED notMap

\* __add_detail_features returns, with every call that called it
DetailReturn ==
    /\ mpc = "lookup"
    /\ detail.low_i > Len(detail.lowres)
    /\ detail.extra = <<>>
    /\ mpc' = "scan"
    /\ scan_i' = scan_i + 1
    /\ detail' = NoDetail
    /\ UNCHANGED <<errorCheck, last_feature_id, features, layers, source_layers,
                   layer_dict, visible_layer_count, id_to_feature, class_to_feature,
                   extent, reg_i, detail_layers, issued, steps, tippe_inputs,
                   geojson_layers, merr>>
    /\ UNCHANGED notMap

\* for layer in detail_layers: self.__add_layer(layer)
RegisterDetailLayer ==
    /\ mpc = "add_detail_layers"
    /\ reg_i <= Len(detail_layers)
    /\ AddLayer(detail_layers[reg_i])
    /\ UNCHANGED <<errorCheck, last_feature_id, features, layers, source_layers,
                   id_to_feature, class_to_feature, extent, scan_i, detail_layers,
                   detail, issued, steps, tippe_inputs, geojson_layers>>
    /\ UNCHANGED notMap

\* __add_details returns; __resolve_paths
ResolvePaths ==
    /\ mpc = "add_detail_layers"
    /\ reg_i > Len(detail_layers)
    /\ mpc' = "geojson"
    /\ reg_i' = 1
    /\ steps' = steps \o <<"resolve_paths", "output_geojson">>
    /\ UNCHANGED <<errorCheck, last_feature_id, features, layers, source_layers,
                   layer_dict, visible_layer_count, id_to_feature, class_to_feature,
                   extent, scan_i, detail_layers, detail, issued, tippe_inputs,
                   geojson_layers, merr>>
    /\ UNCHANGED notMap

\* ignore_property(name): DEPRECATED_FLAGS or SHAPE_FLAGS
ignore_property(name) ==
    name \in {"siblings", "marker", "boundary", "closed", "exterior", "interior"}

\* GeoJSONOutput.__save_features: the record written for one feature
SavedFeature(layer_id, map_area, feature) ==
    LET properties == feature.properties
        source_layer == layer_id \o "-" \o properties["tile-layer"]
        area == GeomArea(feature.geometry)
        mercator_geometry == mercator_transform(feature.geometry)
        \* scale = log2(sqrt(map_area/area)) > 6
        far == area > 0 /\ map_area > 4096 * area
        tippecanoe ==
            DictUpdate(
                DictUpdate([layer |-> source_layer],
                    [k \in DOMAIN properties \cap {"maxzoom", "minzoom"} |-> properties[k]]),
                IF far /\ ~has_property(properties, "group")
                       /\ ~has_property(properties, "minzoom")
                THEN [minzoom |-> 5] ELSE EmptyDict)
        derived == [bounds |-> mercator_geometry, centroid |-> mercator_geometry,
                    area |-> area, length |-> GeomLength(feature.geometry),
                    layer |-> source_layer,
                    scale |-> IF area > 0 THEN (IF far THEN 7 ELSE 6) ELSE 10]
    IN  [type |-> "Feature",
         id |-> feature.feature_id,
         tippecanoe |-> tippecanoe,
         geometry |-> mercator_geometry,
         properties |->
            DictUpdate(derived,
                [k \in {x \in DOMAIN properties : ~ignore_property(x)} |-> properties[k]])]

\* __output_geojson: for layer in self.__layer_dict.values()
OutputGeojson ==
    /\ mpc = "geojson"
    /\ reg_i <= Len(layer_dict)
    /\ LET layer == layers[layer_dict[reg_i]]
       IN  IF layer.hidden
           THEN UNCHANGED <<tippe_inputs, geojson_layers>>
           ELSE /\ geojson_layers' = geojson_layers \o
                     [j \in 1..Len(layer.features) |->
                         SavedFeature(layer.id, CHOOSE a \in MapAreas : TRUE,
                                      features[layer.features[j]])]
                /\ tippe_inputs' = tippe_inputs \o
                     <<[layer |-> "features", of |-> layer.id],
                       [layer |-> "pathways", of |-> layer.id]>>
    /\ reg_i' = reg_i + 1
    /\ UNCHANGED <<mpc, errorCheck, last_feature_id, features, layers, source_layers,
                   layer_dict, visible_layer_count, id_to_feature, class_to_feature,
                   extent, scan_i, detail_layers, detail, issued, steps, merr>>
    /\ UNCHANGED notMap

\* __make_vector_tiles
MakeVectorTiles ==
    /\ mpc = "geojson"
    /\ reg_i > Len(layer_dict)
    /\ IF Len(tippe_inputs) = 0
       THEN /\ MapRaise("ValueError: No selectable layers found...")
            /\ steps' = Append(steps, "make_vector_tiles")
       ELSE /\ mpc' = "metadata"
            /\ steps' = steps \o <<"make_vector_tiles", "save_metadata">>
            /\ UNCHANGED merr
    /\ UNCHANGED <<errorCheck, last_feature_id, features, layers, source_layers,
                   layer_dict, visible_layer_count, id_to_feature, class_to_feature,
                   extent, reg_i, scan_i, detail_layers, detail, issued,
                   tippe_inputs, geojson_layers>>
    /\ UNCHANGED notMap

\* __save_metadata
SaveMetadata ==
    /\ mpc = "metadata"
    /\ mpc' = "finish"
    /\ steps' = Append(steps, "finish_make")
    /\ UNCHANGED <<errorCheck, last_feature_id, features, layers, source_layers,
                   layer_dict, visible_layer_count, id_to_feature, class_to_feature,
                   extent, reg_i, scan_i, detail_layers, detail, issued,
                   tippe_inputs, geojson_layers, merr>>
    /\ UNCHANGED notMap

\* __finish_make
FinishMake ==
    /\ mpc = "finish"
    /\ mpc' = "done"
    /\ UNCHANGED <<errorCheck, last_feature_id, features, layers, source_layers,
                   layer_dict, visible_layer_count, id_to_feature, class_to_feature,
                   extent, reg_i, scan_i, detail_layers, detail, issued, steps,
                   tippe_inputs, geojson_layers, merr>>
    /\ UNCHANGED notMap

MapNext ==
    \/ SourceNewLayer
    \/ SourceNewFeature
    \/ SourceProcessed
    \/ RegisterSourceLayer
    \/ SourcesDone
    \/ ScanLayer
    \/ ScanDone
    \/ DetailLookup
    \/ DetailClone
    \/ DetailCloned
    \/ DetailRecurse
    \/ DetailReturn
    \/ RegisterDetailLayer
    \/ ResolvePaths
    \/ OutputGeojson
    \/ MakeVectorTiles
    \/ SaveMetadata
    \/ FinishMake

\* ------------------------------------------------------------------------
\* Geometry of a slide's features, on a grid of square cells: a polygon is
\* the set of cells it covers, a line runs along a vertical grid line, and
\* an edge is the pair of cells it separates.
\* ------------------------------------------------------------------------

CellSide == 50
NX == 3
NY == 2

Cells == (1..NX) \X (1..NY)
\* the cells of the slide and the ring of cells around them
AllCells == (0..(NX + 1)) \X (0..(NY + 1))

Adjacent(c, d) ==
    \/ c[1] = d[1] /\ (c[2] = d[2] + 1 \/ d[2] = c[2] + 1)
    \/ c[2] = d[2] /\ (c[1] = d[1] + 1 \/ d[1] = c[1] + 1)

AllEdges == {{p[1], p[2]} : p \in {q \in AllCells \X AllCells : Adjacent(q[1], q[2])}}

NoGeometry == [type |-> "None"]

Polygon(cells) == [type |-> "Polygon", cells |-> cells]

\* LineString([(x, from), (x, to)]) with x the grid line left of column gx
LineString(gx, from, to) == [type |-> "LineString", gx |-> gx, from |-> from, to |-> to]

Point(c) == [type |-> "Point", cell |-> c]

\* the edges a line covers from end to end
LineEdges(g) ==
    {{<<g.gx - 1, j>>, <<g.gx, j>>} :
        j \in {k \in 0..(NY + 1) : (k - 1) * CellSide >= g.from /\ k * CellSide <= g.to}}

\* polygon.boundary: a ring, of geom_type LineString
PolygonBoundary(g) ==
    [type |-> "LineString", edges |-> {e \in AllEdges : Cardinality(e \cap g.cells) = 1}]

\* the edges of a LineString, ring or line
Edges(g) == IF "edges" \in DOMAIN g THEN g.edges ELSE LineEdges(g)

\* geometry.area
Area(g) == IF g.type = "Polygon" THEN Cardinality(g.cells) * CellSide * CellSide ELSE 0

\* geometry.length
Length(g) ==
    IF g.type = "Polygon" THEN Cardinality(PolygonBoundary(g).edges) * CellSide
    ELSE IF "edges" \in DOMAIN g THEN Cardinality(g.edges) * CellSide
    ELSE IF g.type = "LineString" THEN g.to - g.from
    ELSE 0

\* polygon.representative_point(): a point inside the polygon's first cell
representative_point(g) ==
    Point(CHOOSE c \in g.cells :
            \A d \in g.cells : c[1] < d[1] \/ (c[1] = d[1] /\ c[2] <= d[2]))

\* prepared_polygon.contains(point)
contains(polygon, point) == point.cell \in polygon.cells

\* the largest r with r * r <= n
ISqrt(n) == CHOOSE r \in 0..n : r * r <= n /\ (r + 1) * (r + 1) > n

\* whole units of 0.02*math.sqrt(divided_area): an end that stops a whole
\* number of units short of a grid line reaches it exactly when that number
\* is at most this one
Tolerance(area) == ISqrt(4 * area) \div 100

\* extend_line(geometry, delta): both ends of a two-point line move outwards
extend_line(g, delta) ==
    IF g.type # "LineString" \/ "edges" \in DOMAIN g THEN g
    ELSE LineString(g.gx, g.from - delta, g.to + delta)

\* the cells reached from `seen` without crossing an edge of `walls`
RECURSIVE Flood(_, _)
Flood(seen, walls) ==
    LET next == seen \cup {d \in AllCells :
                    \E c \in seen : Adjacent(c, d) /\ {c, d} \notin walls}
    IN  IF next = seen THEN seen ELSE Flood(next, walls)

RECURSIVE FacesOf(_, _)
FacesOf(rest, walls) ==
    IF rest = {} THEN {}
    ELSE LET f == Flood({CHOOSE c \in rest : TRUE}, walls)
         IN  {f} \cup FacesOf(rest \ f, walls)

\* shapely.ops.unary_union(dividers): the edges of all the lines
unary_union(lines) == UNION {Edges(lines[i]) : i \in 1..Len(lines)}

\* shapely.ops.polygonize(linework): the bounded faces the edges enclose
polygonize(walls) ==
    {Polygon(f) : f \in FacesOf(Cells \ Flood(AllCells \ Cells, walls), walls)}

\* the orders in which polygonize may yield its polygons
Orderings(S) ==
    {s \in [1..Cardinality(S) -> S] : \A i, j \in 1..Cardinality(S) : s[i] = s[j] => i = j}

\* ------------------------------------------------------------------------
\* The features of one slide or group
\* ------------------------------------------------------------------------

LayerId == "layer1"
SlideId == "slide1"
FirstRegionId == 10000
\* region_id = None
NoId == 0 - 1

\* Feature(id, geometry, properties)
Feature(id, geom, properties) ==
    [id |-> id, geometry |-> geom, properties |-> properties, is_group |-> FALSE]

\* properties.get(key, default)
Get(d, k, default) == IF k \in DOMAIN d THEN d[k] ELSE default

Flag(name) == name :> TRUE

\* the boundary of the divided area: the square of two by two cells
BoundarySquare == Polygon((1..2) \X (1..2))

\* What process_shape_list may yield: the shapes of the slide with the
\* properties of their markup.
ShapeTemplates ==
    {[geometry |-> BoundarySquare, properties |-> Flag("boundary"), is_group |-> FALSE],
     \* unannotated dividers, ending 1 and 3 short of the boundary
     [geometry |-> LineString(2, 1, 99), properties |-> EmptyDict, is_group |-> FALSE],
     [geometry |-> LineString(2, 3, 97), properties |-> EmptyDict, is_group |-> FALSE],
     \* region markers
     [geometry |-> Polygon({<<1, 1>>}), is_group |-> FALSE,
      properties |-> DictUpdate(Flag("region"), [label |-> "A", models |-> "m1"])],
     [geometry |-> Polygon({<<1, 2>>}), is_group |-> FALSE,
      properties |-> DictUpdate(Flag("region"), [label |-> "B"])],
     \* a sibling whose properties the others inherit
     [geometry |-> Polygon({<<3, 2>>}), is_group |-> FALSE,
      properties |-> DictUpdate(Flag("children"), [models |-> "c", colour |-> "red"])],
     \* a line whose properties the others inherit
     [geometry |-> LineString(3, 0, 50), is_group |-> FALSE,
      properties |-> DictUpdate(Flag("children"), [style |-> "dashed"])],
     \* an annotated shape
     [geometry |-> Polygon({<<3, 1>>}), is_group |-> FALSE,
      properties |-> [annotation |-> "x", models |-> "m"]],
     \* the group's own marker
     [geometry |-> LineString(3, 0, 50), is_group |-> FALSE,
      properties |-> DictUpdate(Flag("group"), [label |-> "G"])],
     \* a shape without geometry
     [geometry |-> NoGeometry, is_group |-> FALSE, properties |-> [annotation |-> "n"]],
     \* a nested group
     [geometry |-> Polygon({<<3, 2>>}), is_group |-> TRUE, properties |-> [annotation |-> "g"]],
     \* an unannotated, invisible polygon beside the boundary
     [geometry |-> Polygon({<<3, 1>>}), is_group |-> FALSE, properties |-> Flag("invisible")]}

\* ------------------------------------------------------------------------
\* GeoJsonLayer.add_geo_features_
\* ------------------------------------------------------------------------

LayerFresh(pc) ==
    /\ lpc = pc
    /\ feature_list = <<>>
    /\ li = 1
    /\ divided_area = 0
    /\ child_properties = EmptyDict
    /\ group_features = <<>>
    /\ output_group_feature = FALSE
    /\ group_properties = EmptyDict
    /\ dividers = <<>>
    /\ regions = <<>>
    /\ tolerance = 0
    /\ polygons = <<>>
    /\ polygonized = <<>>
    /\ regions_from = 0
    /\ region_id = FirstRegionId
    /\ geo_features = <<>>
    /\ emitted_from = <<>>
    /\ map_features = <<>>
    /\ annotations = EmptyDict
    /\ runs = <<>>
    /\ lerr = ""

LayerInit == LayerFresh("shapes")

\* no slide is being processed
LayerIdle == LayerFresh("idle")

LayerRaise(e) ==
    /\ lpc' = "error"
    /\ lerr' = e

\* process_shape_list yields another feature; the shape's id is its position
NextShape ==
    /\ lpc = "shapes"
    /\ Len(feature_list) < MaxFeatures
    /\ \E t \in ShapeTemplates :
        feature_list' = Append(feature_list,
            [id |-> Len(feature_list) + 1, geometry |-> t.geometry,
             properties |-> t.properties, is_group |-> t.is_group])
    /\ UNCHANGED <<lpc, li, divided_area, child_properties, group_features,
                   output_group_feature, group_properties, dividers, regions,
                   tolerance, polygons, regions_from, region_id, geo_features,
                   emitted_from, map_features, annotations, lerr>>
    /\ UNCHANGED runs
    /\ UNCHANGED polygonized
    /\ UNCHANGED notLayer

\* process_shape_list yields a shape whose id in the document is no less than
\* the layer's first region id
NextHighShape ==
    /\ lpc = "shapes"
    /\ Len(feature_list) < MaxFeatures
    /\ \E t \in ShapeTemplates :
        feature_list' = Append(feature_list,
            [id |-> FirstRegionId + Len(feature_list), geometry |-> t.geometry,
             properties |-> t.properties, is_group |-> t.is_group])
    /\ UNCHANGED <<lpc, li, divided_area, child_properties, group_features,
                   output_group_feature, group_properties, dividers, regions,
                   tolerance, polygons, regions_from, region_id, geo_features,
                   emitted_from, map_features, annotations, lerr>>
    /\ UNCHANGED runs
    /\ UNCHANGED polygonized
    /\ UNCHANGED notLayer

\* add_geo_features_(features) is called: its locals
BeginAddGeoFeatures ==
    /\ lpc = "shapes"
    /\ lpc' = "classify"
    /\ li' = 1
    /\ divided_area' = 0
    /\ child_properties' = [layer |-> LayerId]
    /\ group_features' = <<>>
    /\ output_group_feature' = FALSE
    /\ group_properties' = [layer |-> LayerId]
    /\ UNCHANGED <<feature_list, dividers, regions, tolerance, polygons,
                   regions_from, region_id, geo_features, emitted_from,
                   map_features, annotations, lerr>>
    /\ UNCHANGED runs
    /\ UNCHANGED polygonized
    /\ UNCHANGED notLayer

\* the first loop: for feature in features
Classify ==
    /\ lpc = "classify"
    /\ li <= Len(feature_list)
    /\ LET feature == feature_list[li]
       IN  IF Get(feature.properties, "boundary", FALSE)
           THEN IF feature.geometry = NoGeometry
                THEN /\ LayerRaise("AttributeError: 'NoneType' object has no attribute 'area'")
                     /\ UNCHANGED <<li, divided_area, child_properties, group_features,
                                    output_group_feature, group_properties>>
                ELSE /\ divided_area' = divided_area + Area(feature.geometry)
                     /\ li' = li + 1
                     /\ UNCHANGED <<lpc, lerr, child_properties, group_features,
                                    output_group_feature, group_properties>>
           ELSE /\ li' = li + 1
                /\ UNCHANGED <<lpc, lerr, divided_area>>
                /\ IF Get(feature.properties, "children", FALSE)
                   THEN /\ child_properties' = DictUpdate(child_properties, feature.properties)
                        /\ UNCHANGED <<group_features, output_group_feature,
                                       group_properties>>
                   ELSE IF Get(feature.properties, "group", FALSE)
                   THEN /\ group_properties' = DictUpdate(group_properties, feature.properties)
                        /\ output_group_feature' = TRUE
                        /\ UNCHANGED <<child_properties, group_features>>
                   ELSE /\ group_features' = Append(group_features, feature)
                        /\ UNCHANGED <<child_properties, output_group_feature,
                                       group_properties>>
    /\ UNCHANGED <<feature_list, dividers, regions, tolerance, polygons,
                   regions_from, region_id, geo_features, emitted_from,
                   map_features, annotations>>
    /\ UNCHANGED runs
    /\ UNCHANGED polygonized
    /\ UNCHANGED notLayer

\* if divided_area > 0: the locals of the branch; else on to the last loop
Classified ==
    /\ lpc = "classify"
    /\ li > Len(feature_list)
    /\ li' = 1
    /\ IF divided_area > 0
       THEN /\ lpc' = "divide"
            /\ group_features' = <<>>
            /\ dividers' = <<>>
            /\ regions' = <<>>
            /\ tolerance' = Tolerance(divided_area)
       ELSE /\ lpc' = "emit"
            /\ UNCHANGED <<group_features, dividers, regions, tolerance>>
    /\ UNCHANGED <<feature_list, divided_area, child_properties,
                   output_group_feature, group_properties, polygons, regions_from,
                   region_id, geo_features, emitted_from, map_features,
                   annotations, lerr>>
    /\ UNCHANGED runs
    /\ UNCHANGED polygonized
    /\ UNCHANGED notLayer

\* dividers by their boundary flag alone
BoundaryOnly(feature) == Get(feature.properties, "boundary", FALSE)

\* annotation == '' or boundary
IsDivider(feature) ==
    \/ Get(feature.properties, "annotation", "") = ""
    \/ Get(feature.properties, "boundary", FALSE)

\* the second loop: for feature in features
Divide ==
    /\ lpc = "divide"
    /\ li <= Len(feature_list)
    /\ LET feature == feature_list[li]
           geom == feature.geometry
       IN  IF geom = NoGeometry
           THEN /\ LayerRaise(IF Get(feature.properties, "region", FALSE)
                      THEN "AttributeError: 'NoneType' object has no attribute 'representative_point'"
                      ELSE "AttributeError: 'NoneType' object has no attribute 'geom_type'")
                /\ UNCHANGED <<li, regions, dividers, group_features, region_id>>
           ELSE /\ li' = li + 1
                /\ UNCHANGED <<lpc, lerr>>
                /\ IF Get(feature.properties, "region", FALSE)
                   THEN /\ regions' = Append(regions,
                               Feature(feature.id, representative_point(geom),
                                       feature.properties))
                        /\ UNCHANGED <<dividers, group_features, region_id>>
                   ELSE IF geom.type = "LineString" /\ IsDivider(feature)
                   THEN /\ dividers' = Append(dividers, extend_line(geom, tolerance))
                        /\ group_features' = Append(group_features, feature)
                        /\ UNCHANGED <<regions, region_id>>
                   ELSE IF geom.type = "Polygon" /\ IsDivider(feature)
                   THEN LET shown == ~Get(feature.properties, "invisible", FALSE)
                            outline == IF shown
                                       THEN <<Feature(region_id, PolygonBoundary(geom),
                                                      [layer |-> LayerId])>>
                                       ELSE <<>>
                            itself == IF Get(feature.properties, "boundary", FALSE)
                                      THEN <<feature>> ELSE <<>>
                        IN  /\ dividers' = Append(dividers, PolygonBoundary(geom))
                            /\ group_features' = group_features \o outline \o itself
                            /\ region_id' = IF shown THEN region_id + 1 ELSE region_id
                            /\ UNCHANGED regions
                   ELSE /\ group_features' =
                              IF ~Get(feature.properties, "group", FALSE)
                              THEN Append(group_features, feature)
                              ELSE group_features
                        /\ UNCHANGED <<regions, dividers, region_id>>
    /\ UNCHANGED <<feature_list, divided_area, child_properties,
                   output_group_feature, group_properties, tolerance, polygons,
                   regions_from, geo_features, emitted_from, map_features,
                   annotations>>
    /\ UNCHANGED runs
    /\ UNCHANGED polygonized
    /\ UNCHANGED notLayer

\* if dividers: polygonize(unary_union(dividers)) yields its polygons
Divided ==
    /\ lpc = "divide"
    /\ li > Len(feature_list)
    /\ li' = 1
    /\ regions_from' = Len(group_features)
    /\ IF dividers # <<>>
       THEN /\ lpc' = "regions"
            \* the same linework is polygonized in the same order in every run
            /\ polygons' \in IF runs = <<>>
                              THEN Orderings(polygonize(unary_union(dividers)))
                              ELSE {polygonized}
            /\ polygonized' = polygons'
       ELSE /\ lpc' = "emit"
            /\ UNCHANGED <<polygons, polygonized>>
    /\ UNCHANGED <<feature_list, divided_area, child_properties, group_features,
                   output_group_feature, group_properties, dividers, regions,
                   tolerance, region_id, geo_features, emitted_from, map_features,
                   annotations, lerr>>
    /\ UNCHANGED runs
    /\ UNCHANGED notLayer

\* the last marker alone, the earlier ones ignored
LastMatchOnly(base, matching) ==
    IF matching = <<>> THEN [id |-> NoId, properties |-> base]
    ELSE [id |-> matching[Len(matching)].id,
          properties |-> DictUpdate(base, matching[Len(matching)].properties)]

\* for region in filter(...): region_id = region.id; region_properties.update(...)
RECURSIVE UpdateAll(_, _)
UpdateAll(acc, matching) ==
    IF matching = <<>> THEN acc
    ELSE UpdateAll([id |-> Head(matching).id,
                    properties |-> DictUpdate(acc.properties, Head(matching).properties)],
                   Tail(matching))

\* the markers' properties alone, without the base child properties beneath
MatchFromNothing(base, matching) ==
    UpdateAll([id |-> NoId, properties |-> EmptyDict], matching)

\* the id and the properties of a region, from the markers inside it
MatchRegion(base, matching) == UpdateAll([id |-> NoId, properties |-> base], matching)

\* filter(lambda p: prepared_polygon.contains(p.geometry), regions)
Matching(polygon) == SelectSeq(regions, LAMBDA p : contains(polygon, p.geometry))

\* for polygon in polygonize(...)
Region ==
    /\ lpc = "regions"
    /\ li <= Len(polygons)
    /\ LET polygon == polygons[li]
           found == MatchRegion(child_properties, Matching(polygon))
           unmatched == found.id = NoId
       IN  /\ group_features' = Append(group_features,
                  Feature(IF unmatched THEN region_id ELSE found.id,
                          polygon, found.properties))
           /\ region_id' = IF unmatched THEN region_id + 1 ELSE region_id
    /\ li' = li + 1
    /\ UNCHANGED <<lpc, feature_list, divided_area, child_properties,
                   output_group_feature, group_properties, dividers, regions,
                   tolerance, polygons, regions_from, geo_features, emitted_from,
                   map_features, annotations, lerr>>
    /\ UNCHANGED runs
    /\ UNCHANGED polygonized
    /\ UNCHANGED notLayer

Regioned ==
    /\ lpc = "regions"
    /\ li > Len(polygons)
    /\ lpc' = "emit"
    /\ li' = 1
    /\ UNCHANGED <<feature_list, divided_area, child_properties, group_features,
                   output_group_feature, group_properties, dividers, regions,
                   tolerance, polygons, regions_from, region_id, geo_features,
                   emitted_from, map_features, annotations, lerr>>
    /\ UNCHANGED runs
    /\ UNCHANGED polygonized
    /\ UNCHANGED notLayer

\* a feature's properties with the child properties beneath them
ChildOverOwn(child, own) == DictUpdate(own, child)

\* properties = child_properties.copy(); properties.update(feature.properties)
MergedProperties(child, own) == DictUpdate(child, own)

\* the keys the last loop leaves out of a feature's emitted properties
NotEmitted == {"boundary", "children", "group", "layer", "region"}

\* geometry.bounds
Bounds(g) ==
    IF g.type = "Polygon"
    THEN LET xs == {c[1] : c \in g.cells}
             ys == {c[2] : c \in g.cells}
             lo(S) == CHOOSE v \in S : \A w \in S : v <= w
             hi(S) == CHOOSE v \in S : \A w \in S : v >= w
         IN  <<(lo(xs) - 1) * CellSide, (lo(ys) - 1) * CellSide,
               hi(xs) * CellSide, hi(ys) * CellSide>>
    ELSE IF "edges" \in DOMAIN g THEN <<"bounds of", g.edges>>
    ELSE <<(g.gx - 1) * CellSide, g.from, (g.gx - 1) * CellSide, g.to>>

\* the GeoJSON feature of the last loop
GeoJson(feature, properties) ==
    LET geom == feature.geometry
        mercator_geometry == mercator_transform(geom)
        unique_id == SlideId \o "-" \o ToString(feature.id)
    IN  [type |-> "Feature",
         id |-> feature.id,
         geometry |-> [type |-> geom.type, coordinates |-> mercator_geometry],
         properties |->
            DictUpdate([id |-> unique_id,
                        bounds |-> mercator_transform(Bounds(geom)),
                        area |-> Area(geom),
                        length |-> Length(geom)],
                [k \in DOMAIN properties \ NotEmitted |-> properties[k]])]

\* the last loop: for feature in group_features
Emit ==
    /\ lpc = "emit"
    /\ li <= Len(group_features)
    /\ LET feature == group_features[li]
           unique_id == SlideId \o "-" \o ToString(feature.id)
           properties == MergedProperties(child_properties, feature.properties)
       IN  IF feature.geometry # NoGeometry /\ ~feature.is_group
           THEN /\ geo_features' = Append(geo_features, GeoJson(feature, properties))
                /\ emitted_from' = Append(emitted_from, li)
                /\ map_features' = Append(map_features,
                       [id |-> unique_id, type |-> feature.geometry.type])
                /\ annotations' =
                       IF DOMAIN properties # {}
                       THEN set_property(annotations, unique_id,
                                set_property(properties, "geometry", feature.geometry.type))
                       ELSE annotations
           ELSE UNCHANGED <<geo_features, emitted_from, map_features, annotations>>
    /\ li' = li + 1
    /\ UNCHANGED <<lpc, feature_list, divided_area, child_properties, group_features,
                   output_group_feature, group_properties, dividers, regions,
                   tolerance, polygons, regions_from, region_id, lerr>>
    /\ UNCHANGED runs
    /\ UNCHANGED polygonized
    /\ UNCHANGED notLayer

\* add_geo_features_ returns
Emitted ==
    /\ lpc = "emit"
    /\ li > Len(group_features)
    /\ lpc' = "done"
    /\ UNCHANGED <<feature_list, li, divided_area, child_properties, group_features,
                   output_group_feature, group_properties, dividers, regions,
                   tolerance, polygons, regions_from, region_id, geo_features,
                   emitted_from, map_features, annotations, lerr>>
    /\ runs' = Append(runs, geo_features)
    /\ UNCHANGED polygonized
    /\ UNCHANGED notLayer

\* process() is called again on the layer: self._geo_features = [], the same
\* shapes give the same features, and add_geo_features_ starts afresh
ProcessAgain ==
    /\ lpc = "done"
    /\ Len(runs) < MaxRuns
    /\ lpc' = "classify"
    /\ li' = 1
    /\ geo_features' = <<>>
    /\ emitted_from' = <<>>
    /\ divided_area' = 0
    /\ child_properties' = [layer |-> LayerId]
    /\ group_features' = <<>>
    /\ output_group_feature' = FALSE
    /\ group_properties' = [layer |-> LayerId]
    /\ dividers' = <<>>
    /\ regions' = <<>>
    /\ tolerance' = 0
    /\ polygons' = <<>>
    /\ regions_from' = 0
    /\ UNCHANGED <<feature_list, region_id, map_features, annotations, runs, lerr>>
    /\ UNCHANGED polygonized
    /\ UNCHANGED notLayer

LayerNext ==
    \/ NextShape
    \/ BeginAddGeoFeatures
    \/ Classify
    \/ Classified
    \/ Divide
    \/ Divided
    \/ Region
    \/ Regioned
    \/ Emit
    \/ Emitted

\* process() called on the same layer time after time
ProcessNext ==
    \/ LayerNext
    \/ NextHighShape
    \/ ProcessAgain

\* ------------------------------------------------------------------------
\* GeoJsonLayer.process, process_group and process_shape: the transform of a
\* shape nested in groups
\* ------------------------------------------------------------------------

\* extractor.transform: metres per unit, the y axis flipped, the slide centred
LayerTransforms == {Matrix(1, 0 - 1, 0 - 8, 8), Matrix(3, 0 - 3, 0 - 24, 24)}

\* Transform(group).matrix(): the group's extent over its children's extent,
\* placed at the group's offset
GroupTransforms == {Matrix(2, 2, 0, 0), Matrix(1, 1, 4, 0), Matrix(2, 1, 0 - 4, 8)}

\* the (w, h) a path may declare; None when it declares none
PathBoxes == {None, <<8, 8>>}

NestInit ==
    /\ npc = "shapes"
    /\ layer_transform \in LayerTransforms
    /\ group_path = <<>>
    /\ group_transform = layer_transform
    /\ shape_transform = Identity
    /\ shape_T = Identity

\* no slide is being walked
NestIdle ==
    /\ npc = "idle"
    /\ layer_transform = Identity
    /\ group_path = <<>>
    /\ group_transform = Identity
    /\ shape_transform = Identity
    /\ shape_T = Identity

\* a transform applied after the group's own
GroupFirst(t, g) == MatMul(g, t)

\* transform@Transform(group).matrix()
GroupTransform(t, g) == MatMul(t, g)

\* process_group(group, transform): process_shape_list on the group's shapes
ProcessGroup ==
    /\ npc = "shapes"
    /\ Len(group_path) < MaxDepth
    /\ \E g \in GroupTransforms :
        /\ group_path' = Append(group_path, g)
        /\ group_transform' = GroupTransform(group_transform, g)
    /\ UNCHANGED <<npc, layer_transform, shape_transform, shape_T>>
    /\ UNCHANGED notNest

\* process_shape(shape, transform): T of a path of the shape
ProcessShape ==
    /\ npc = "shapes"
    /\ \E shp \in Shapes, box \in PathBoxes :
        LET bbox == IF box = None THEN <<shp.width, shp.height>> ELSE box
        IN  /\ shape_transform' = ShapeMatrix(shp, bbox)
            /\ shape_T' = MatMul(group_transform, ShapeMatrix(shp, bbox))
    /\ npc' = "done"
    /\ UNCHANGED <<layer_transform, group_path, group_transform>>
    /\ UNCHANGED notNest

NestNext ==
    \/ ProcessGroup
    \/ ProcessShape

\* process_shape alone: no map is being made, no slide processed
ShapeStart == ShapeInit /\ MapIdle /\ LayerIdle /\ NestIdle

SpecShape == ShapeStart /\ [][ShapeNext]_vars

\* Flatmap.make alone
MapStart == MapInit /\ ShapeIdle /\ LayerIdle /\ NestIdle

SpecMap == MapStart /\ [][MapNext]_vars

\* a build with the errorCheck option off, which rescales details
BuildStart == MapStart /\ ~errorCheck

\* Flatmap.make run to its end: make() is one thread of control that takes
\* its next step whenever it has one
SpecMapFair == BuildStart /\ [][MapNext]_vars /\ WF_vars(MapNext)

\* add_geo_features_ alone
LayerStart == LayerInit /\ ShapeIdle /\ MapIdle /\ NestIdle

SpecLayer == LayerStart /\ [][LayerNext]_vars

\* the slide processed again and again
SpecProcess == LayerStart /\ [][ProcessNext]_vars

\* the descent to a shape alone
NestStart == NestInit /\ ShapeIdle /\ MapIdle /\ LayerIdle

SpecNest == NestStart /\ [][NestNext]_vars

\* ------------------------------------------------------------------------
\* Claims about process_shape
\* ------------------------------------------------------------------------

\* Every path of the shape begins with a moveTo.
WellFormedPaths ==
    \A i \in 1..Len(path_list) :
        path_list[i] # <<>> /\ path_list[i][1].tag = "moveTo"

SawClose == \E i \in 1..Len(AllCmds) : AllCmds[i].tag = "close"

EndsWithClose == AllCmds # <<>> /\ AllCmds[Len(AllCmds)].tag = "close"

\* C1: when the last command of a shape is a close and the shape produced a
\* coordinate, the first and the last coordinate built by process_shape are
\* equal (stated for shapes whose every path begins with a moveTo).
C1_ClosedRing ==
    (spc = "done" /\ WellFormedPaths /\ EndsWithClose /\ coordinates # <<>>)
        => coordinates[1] = coordinates[Len(coordinates)]

\* C2: process_shape returns a Polygon exactly when a close was seen anywhere
\* in the shape's commands, and a LineString otherwise (stated for shapes whose
\* every path begins with a moveTo).
C2_PolygonIffClose ==
    (spc = "done" /\ WellFormedPaths)
        => (geometry = "Polygon" <=> SawClose)

\* C15: a shape with no commands, or with no command but Close, raises no
\* error and yields an empty LineString: a Close without an active subpath
\* changes neither the coordinates nor the closed flag.
C15_DegenerateIsEmptyLine ==
    (\A i \in 1..Len(AllCmds) : AllCmds[i].tag = "close") =>
        /\ spc # "error"
        /\ spc = "done" => (geometry = "LineString" /\ coordinates = <<>>)

\* the tags of the commands read so far, without the unknown ones
KnownTags ==
    SelectSeq([i \in 1..Len(AllCmds) |-> AllCmds[i].tag], LAMBDA t : t # "unknown")

\* C16: the step that reads an unrecognized command leaves the coordinates,
\* the current point, the first point of the subpath, the pending move and
\* the closed flag as they were and stays in the loop over the commands, so
\* that the commands around it are flattened as if it were not there.
C16_UnknownIsSkipped ==
    [][(/\ Len(AllCmds') = Len(AllCmds) + 1
        /\ AllCmds'[Len(AllCmds')].tag = "unknown")
       => /\ coordinates' = coordinates
          /\ current_point' = current_point
          /\ first_point' = first_point
          /\ moved' = moved
          /\ closed' = closed
          /\ T' = T
          /\ spc' = "cmds"
          /\ KnownTags' = KnownTags]_vars

\* a closed figure flattened with an unrecognized command between its lnTo
\* and its close
C16_UnknownInTheMiddle ==
    /\ spc = "done"
    /\ geometry = "Polygon"
    /\ Len(path_list) = 1
    /\ [i \in 1..Len(AllCmds) |-> AllCmds[i].tag] = <<"moveTo", "lnTo", "unknown", "close">>
    /\ Len(coordinates) = 3

\* a moveTo followed by lnTo commands, one at least
MoveThenLines(path) ==
    /\ Len(path) >= 2
    /\ path[1].tag = "moveTo"
    /\ \A i \in 2..Len(path) : path[i].tag = "lnTo"

\* the points p0, p1, ..., pn of the commands
PointsOf(path) == [i \in 1..Len(path) |-> path[i].pts[1]]

\* C21: under the identity transform the path MoveTo(p0), LineTo(p1), ...,
\* LineTo(pn) flattens to p0, p1, ..., pn, and a Close after it appends p0
\* when pn differs from p0 and nothing when pn is p0.
C21_LinesThenClose ==
    (Len(path_list) = 1 /\ T = Identity /\ spc # "error") =>
        LET path == path_list[1]
            n == Len(path)
        IN  /\ MoveThenLines(path) => coordinates = PointsOf(path)
            /\ (/\ n >= 3
                /\ path[n].tag = "close"
                /\ MoveThenLines(SubSeq(path, 1, n - 1))) =>
                   LET pts == PointsOf(SubSeq(path, 1, n - 1))
                   IN  coordinates = IF pts[n - 1] # pts[1]
                                     THEN Append(pts, pts[1])
                                     ELSE pts

\* a path that comes back to its start by itself before it is closed
C21_BackAtStart ==
    /\ spc = "done"
    /\ T = Identity
    /\ Len(path_list) = 1
    /\ [i \in 1..Len(AllCmds) |-> AllCmds[i].tag] = <<"moveTo", "lnTo", "lnTo", "close">>
    /\ AllCmds[3].pts[1] = AllCmds[1].pts[1]
    /\ AllCmds[2].pts[1] # AllCmds[1].pts[1]
    /\ Len(coordinates) = 3

\* the command a step has read
LastCmd == AllCmds'[Len(AllCmds')]

\* C25: the large-arc flag an arcTo passes on is 1 exactly when the absolute
\* value of its sweep angle is at least pi, and after the command the
\* current point is currentPoint - ellipse(start) + ellipse(start + sweep).
C25_LargeArcFlag ==
    [][(/\ Len(AllCmds') = Len(AllCmds) + 1
        /\ LastCmd.tag = "arcTo"
        /\ spc' # "error")
       => LET wR == LastCmd.arc[1]
              hR == LastCmd.arc[2]
              stAng == LastCmd.arc[3]
              swAng == LastCmd.arc[4]
              size == IF swAng < 0 THEN 0 - swAng ELSE swAng
              p1 == ellipse_point(wR, hR, stAng)
              p2 == ellipse_point(wR, hR, stAng + swAng)
          IN  /\ large_arcs' = Append(large_arcs, IF size >= Pi THEN 1 ELSE 0)
              /\ current_point' = <<current_point[1] - p1[1] + p2[1],
                                    current_point[2] - p1[2] + p2[2]>>]_vars

\* the commands that emit what they draw
Drawing == {"lnTo", "cubicBezTo", "quadBezTo", "arcTo"}

\* the commands read so far in the path being read
ThisPath == path_list[Len(path_list)]

\* C28: a moveTo's point is emitted at most once: a line, or a curve or arc
\* whose samples start at the current point, that has emitted coordinates
\* leaves the pending-move flag clear, so that an lnTo after a moveTo and a
\* curve emits its own end point and nothing before it.
C28_MoveEmittedOnce ==
    [][(/\ Len(AllCmds') = Len(AllCmds) + 1
        /\ LastCmd.tag \in Drawing
        /\ spc' # "error")
       => /\ Len(coordinates') > Len(coordinates) => ~moved'
          /\ (/\ LastCmd.tag = "lnTo"
              /\ Len(ThisPath) >= 2
              /\ ThisPath[Len(ThisPath)].tag \in Drawing \ {"lnTo"}
              /\ ThisPath[Len(ThisPath) - 1].tag = "moveTo")
             => coordinates' =
                   Append(coordinates, transform_point(T, LastCmd.pts[1]))]_vars

\* ------------------------------------------------------------------------
\* Claims about Flatmap.make
\* ------------------------------------------------------------------------

\* the features a detail layer received: the clones
Clones ==
    UNION {{layers[detail_layers[i]].features[j] :
               j \in 1..Len(layers[detail_layers[i]].features)} :
           i \in 1..Len(detail_layers)}

\* C3: over all the new_feature calls of one build, for source features and
\* for clones alike, every id returned is a positive integer greater than
\* every id returned before it, so no two calls return the same id.
C3_FreshIds ==
    \A i \in 1..Len(issued) :
        /\ issued[i] \in Nat \ {0}
        /\ \A j \in 1..(i - 1) : issued[j] < issued[i]

\* a finished build whose ids went to the features of two source layers and
\* to at least two clones
C3_SourceAndCloneIds ==
    /\ mpc = "done"
    /\ Cardinality(Clones) >= 2
    /\ \E a, b \in 1..Len(source_layers) :
          /\ a # b
          /\ layers[source_layers[a]].features # <<>>
          /\ layers[source_layers[b]].features # <<>>
    /\ Len(issued) = Cardinality(DOMAIN features)

\* C4: a build that runs to its end has emitted no two features under the
\* same id; a second feature taking an id already assigned stops the build.
C4_NoSharedId ==
    mpc = "done" =>
        \A i, j \in 1..Len(geojson_layers) :
            (/\ i # j
             /\ has_property(geojson_layers[i].properties, "id")
             /\ has_property(geojson_layers[j].properties, "id"))
            => geojson_layers[i].properties["id"] # geojson_layers[j].properties["id"]

\* the layers of the map's layer dictionary
Registered == {layer_dict[i] : i \in 1..Len(layer_dict)}

\* the placeholder whose expansion is running, or has failed
Placeholder == features[detail.lowres[detail.low_i]]

\* C11: a placeholder is expanded only when the layer its `details` names is
\* registered and holds its outline feature; otherwise the build ends in a
\* KeyError naming the missing id, with no detail layer registered and no
\* later step of make() begun.
C11_MissingIsFatal ==
    /\ mpc = "clone" =>
          /\ detail.hires \in Registered
          /\ layers[detail.hires].id = HiresLayerId(layers[detail.layer], Placeholder)
          /\ FeaturesWithIdGet(layers[detail.hires],
                               layers[detail.hires].outline_feature_id) # 0
    /\ (mpc = "error" /\ detail # NoDetail) =>
          /\ LET named == RegisteredWithId(HiresLayerId(layers[detail.layer], Placeholder))
             IN  merr = IF named = {} THEN MissingLayer(Placeholder)
                        ELSE MissingOutline(layers[layer_dict[CHOOSE i \in named : TRUE]])
          /\ \A i \in 1..Len(detail_layers) : detail_layers[i] \notin Registered
          /\ steps = <<"process_sources", "add_details">>
          /\ geojson_layers = <<>>
          /\ tippe_inputs = <<>>

\* a build stopped by a placeholder of the second parent layer, after the
\* first parent's detail layer was filled
C11_StoppedAfterFirstParent ==
    /\ mpc = "error"
    /\ detail # NoDetail
    /\ Len(detail_layers) = 2
    /\ layers[detail_layers[1]].features # <<>>

\* the layer whose feature list holds the feature
Owner(fid) ==
    CHOOSE l \in 1..Len(layers) :
        \E j \in 1..Len(layers[l].features) : layers[l].features[j] = fid

\* the clone made by the last step of the running expansion
LastClone ==
    features[layers[detail.detail_layer].features[
                 Len(layers[detail.detail_layer].features)]]

\* C12: a clone's `layer` is the id of the layer that owns the placeholder it
\* was expanded from, and its `minzoom` is that placeholder's `maxzoom` plus
\* one, at every depth of the expansion.
C12_CloneOfPlaceholder ==
    (mpc = "clone" /\ detail.hires_j > 1) =>
        /\ LastClone.properties["layer"]
              = layers[Owner(detail.lowres[detail.low_i])].id
        /\ LastClone.properties["minzoom"] = Placeholder.properties["maxzoom"] + 1

\* C13: no step of detail rescaling changes the geometry or the properties
\* of a feature that exists already (placeholder, outline or any other), and
\* while an expansion runs only its detail layer gains features.
C13_PreExistingUnchanged ==
    [][/\ \A f \in DOMAIN features :
             f \in DOMAIN features' /\ features'[f] = features[f]
       /\ mpc \in {"lookup", "clone"} =>
             \A l \in 1..Len(layers) :
                 l # detail.detail_layer => layers'[l] = layers[l]]_vars

\* a layer the scan makes a detail layer for
HasDetails(l) == ~layers[l].hidden /\ detail_features(layers[l]) # <<>>

\* the detail layers made for a layer
DetailLayersOf(l) ==
    {i \in 1..Len(detail_layers) :
        layers[detail_layers[i]].id = layers[l].id \o "-details"}

\* the parent layers the scan has dealt with, or is dealing with
Scanned ==
    {layer_dict[i] : i \in {k \in 1..Len(source_layers) :
        \/ mpc \notin {"scan", "lookup", "clone"}
        \/ k < scan_i
        \/ k = scan_i /\ mpc \in {"lookup", "clone"}}}

\* C18: detail rescaling starts only after the source has been processed and
\* all its layers registered; it makes exactly one detail layer for each
\* non-hidden layer with detail features; the detail layers are registered
\* only after every parent layer has been scanned, so no detail layer is
\* scanned as a parent.
C18_DetailsAfterSources ==
    /\ mpc \in {"process", "register"} => detail_layers = <<>>
    /\ mpc \in {"scan", "lookup", "clone"} =>
          /\ steps = <<"process_sources", "add_details">>
          /\ layer_dict = source_layers
          /\ scan_i <= Len(layer_dict) =>
                \A i \in 1..Len(detail_layers) : layer_dict[scan_i] # detail_layers[i]
          /\ \A l \in Registered :
                Cardinality(DetailLayersOf(l)) =
                    IF l \in Scanned /\ HasDetails(l) THEN 1 ELSE 0
    /\ mpc \in {"add_detail_layers", "geojson", "metadata", "finish", "done"}
       /\ ~errorCheck =>
          /\ \A i \in 1..Len(source_layers) :
                /\ layer_dict[i] = source_layers[i]
                /\ Cardinality(DetailLayersOf(source_layers[i])) =
                       IF HasDetails(source_layers[i]) THEN 1 ELSE 0
          /\ Len(detail_layers) =
                Cardinality({i \in 1..Len(source_layers) : HasDetails(source_layers[i])})
          /\ mpc # "add_detail_layers" =>
                layer_dict = source_layers \o detail_layers

\* a finished build with two parent layers, each with its detail layer
\* registered after the three layers of the source, the third without details
C18_TwoDetailLayers ==
    /\ mpc = "done"
    /\ Len(source_layers) = 3
    /\ Len(detail_layers) = 2
    /\ layer_dict = source_layers \o detail_layers
    /\ ~HasDetails(source_layers[3])

\* __add_detail_features is running
Expanding == mpc \in {"lookup", "clone"}

\* the clones of the detail layers that carry a `details` reference and
\* still have the placeholder's own geometry
Unexpanded ==
    {f \in DOMAIN features :
        /\ \E i \in 1..Len(detail_layers) :
              \E j \in 1..Len(layers[detail_layers[i]].features) :
                  layers[detail_layers[i]].features[j] = f
        /\ has_property(features[f].properties, "details")
        /\ features[f].geometry.form = "placeholder"}

Registering ==
    IF mpc = "register" /\ reg_i <= Len(source_layers) THEN source_layers[reg_i]
    ELSE IF mpc = "add_detail_layers" /\ reg_i <= Len(detail_layers)
    THEN detail_layers[reg_i]
    ELSE 0

\* C27: the layer dictionary holds at most one layer under an id, and the
\* visible-layer count is the number of registered layers that are not
\* hidden; registering a layer under an id that is present already raises
\* KeyError and leaves the dictionary and the count as they were.
C27_LayerRegistry ==
    /\ [](/\ \A i, j \in 1..Len(layer_dict) :
                layers[layer_dict[i]].id = layers[layer_dict[j]].id => i = j
          /\ visible_layer_count =
                Cardinality({i \in 1..Len(layer_dict) : ~layers[layer_dict[i]].hidden}))
    /\ [][(/\ Registering # 0
           /\ \E i \in 1..Len(layer_dict) :
                 layers[layer_dict[i]].id = layers[Registering].id)
          => /\ mpc' = "error"
             /\ merr' = "KeyError: Duplicate layer id"
             /\ layer_dict' = layer_dict
             /\ visible_layer_count' = visible_layer_count]_vars

\* a build stopped by a second layer under the id of a visible layer that is
\* registered after a hidden one
C27_SecondUnderSameId ==
    /\ mpc = "error"
    /\ merr = "KeyError: Duplicate layer id"
    /\ Len(layer_dict) = 2
    /\ visible_layer_count = 1
    /\ ~layers[layer_dict[2]].hidden
    /\ layers[source_layers[3]].id = layers[layer_dict[2]].id

\* ------------------------------------------------------------------------
\* Claims about the transform of nested shapes
\* ------------------------------------------------------------------------

\* the matrices from the layer's down to the shape's
NestingChain == <<layer_transform>> \o group_path \o <<shape_transform>>

\* a point taken through the matrices of a chain, the innermost first
RECURSIVE ThroughChain(_, _)
ThroughChain(chain, point) ==
    IF chain = <<>> THEN point
    ELSE transform_point(Head(chain), ThroughChain(Tail(chain), point))

\* the corners of a square of side 10 in the shape's own coordinates
SquareCorners == {<<0, 0>>, <<10, 0>>, <<0, 10>>, <<10, 10>>}

\* C14: the matrix applied to a shape's points is layerTransform @ g1 @ ...
\* @ gn @ shapeTransform at every nesting depth: it takes each point where
\* the shape's matrix, then the groups' from the innermost to the outermost,
\* then the layer's take it.
C14_NestingOrder ==
    npc = "done" =>
        \A p \in SquareCorners :
            transform_point(shape_T, p) = ThroughChain(NestingChain, p)

\* a shape two groups deep whose groups' matrices do not commute
C14_TwoGroupsDeep ==
    /\ npc = "done"
    /\ Len(group_path) = 2
    /\ MatMul(group_path[1], group_path[2]) # MatMul(group_path[2], group_path[1])
    /\ shape_transform # Identity

\* ------------------------------------------------------------------------
\* Claims about add_geo_features_
\* ------------------------------------------------------------------------

\* the feature of group_features that the k-th emitted feature was made from
EmittedSource(k) == group_features[emitted_from[k]]

\* C5: the emitted value of every key outside boundary, children, group,
\* layer and region is the feature's own value when the feature defines the
\* key, and the child properties' value otherwise.
C5_OwnOverChild ==
    \A k \in 1..Len(geo_features) :
        LET own == EmittedSource(k).properties
            out == geo_features[k].properties
        IN  \A key \in (DOMAIN own \cup DOMAIN child_properties) \ NotEmitted :
                /\ key \in DOMAIN out
                /\ out[key] = IF key \in DOMAIN own THEN own[key]
                              ELSE child_properties[key]

\* an emitted feature that defines `models` differently from a
\* children-flagged sibling and takes `colour` from that sibling
C5_OwnAndInherited ==
    /\ lpc = "done"
    /\ \E k \in 1..Len(geo_features) :
        LET own == EmittedSource(k).properties
        IN  /\ "models" \in DOMAIN own
            /\ "models" \in DOMAIN child_properties
            /\ own["models"] # child_properties["models"]
            /\ "colour" \in DOMAIN child_properties \ DOMAIN own
            /\ geo_features[k].properties["colour"] = child_properties["colour"]

\* C6: every emitted feature's properties hold `layer`, and its value is the
\* id of the layer that owns the feature.
C6_LayerIsOwner ==
    \A k \in 1..Len(geo_features) :
        /\ "layer" \in DOMAIN geo_features[k].properties
        /\ geo_features[k].properties["layer"] = LayerId

\* C7: no emitted feature's properties hold boundary, children, group,
\* region, divider, invisible or annotation.
C7_NoStructuralKeys ==
    \A k \in 1..Len(geo_features) :
        DOMAIN geo_features[k].properties
            \cap {"boundary", "children", "group", "region", "divider",
                  "invisible", "annotation"} = {}

\* C8: add_geo_features_ ends without an error, and nothing it emits is
\* without geometry or a group marker, whether the divided area is zero or
\* positive.
C8_CompletesClean ==
    /\ lpc # "error"
    /\ \A k \in 1..Len(geo_features) :
        /\ EmittedSource(k).geometry # NoGeometry
        /\ ~EmittedSource(k).is_group
        /\ ~Get(EmittedSource(k).properties, "group", FALSE)

\* the region polygons appended so far, and the k-th of them
NumRegionFeatures == IF polygons = <<>> THEN 0 ELSE Len(group_features) - regions_from

RegionFeature(k) == group_features[regions_from + k]

\* the markers among ms that define key
Defining(ms, key) == {i \in 1..Len(ms) : key \in DOMAIN ms[i].properties}

\* C9 (as the code has it): a region holding several markers has the id of
\* the last of them, and for each key the value of the last marker that
\* defines the key, or the child properties' value when no marker does.
C9_LastDefiningMarker ==
    \A k \in 1..NumRegionFeatures :
        LET ms == Matching(polygons[k])
            f == RegionFeature(k)
        IN  Len(ms) >= 2 =>
              /\ f.id = ms[Len(ms)].id
              /\ DOMAIN f.properties =
                    DOMAIN child_properties
                        \cup UNION {DOMAIN ms[i].properties : i \in 1..Len(ms)}
              /\ \A key \in DOMAIN f.properties :
                    f.properties[key] =
                        IF Defining(ms, key) = {} THEN child_properties[key]
                        ELSE ms[CHOOSE i \in Defining(ms, key) :
                                   \A j \in Defining(ms, key) : j <= i].properties[key]

\* a region with two markers, the first of which defines a key the second
\* does not
C9_EarlierMarkerKey ==
    /\ lpc = "done"
    /\ \E k \in 1..NumRegionFeatures :
        LET ms == Matching(polygons[k])
        IN  /\ Len(ms) >= 2
            /\ DOMAIN ms[1].properties \ DOMAIN ms[Len(ms)].properties # {}
            /\ ms[1].id # ms[Len(ms)].id

\* C9 (as stated): a region holding several markers has the id of the last
\* of them and the child properties overridden by that marker's properties
\* alone.
C9_LastMarkerOnly ==
    \A k \in 1..NumRegionFeatures :
        LET ms == Matching(polygons[k])
            f == RegionFeature(k)
        IN  Len(ms) >= 2 =>
              /\ f.id = ms[Len(ms)].id
              /\ f.properties = DictUpdate(child_properties, ms[Len(ms)].properties)

\* the boundary-flagged polygons and the cells they cover
Boundaries ==
    SelectSeq(feature_list,
              LAMBDA f : Get(f.properties, "boundary", FALSE) /\ f.geometry.type = "Polygon")

BoundaryCells == UNION {Boundaries[i].geometry.cells : i \in 1..Len(Boundaries)}

RECURSIVE Sum(_)
Sum(seq) == IF seq = <<>> THEN 0 ELSE Head(seq) + Sum(Tail(seq))

\* C10: the region polygons of a group whose boundaries have area A > 0 do
\* not overlap, none lies outside the boundary, and their areas add up to A
\* within the area of a strip of width tau along the boundary.
C10_RegionsPartition ==
    (lpc = "done" /\ divided_area > 0) =>
        LET n == NumRegionFeatures
            total == Sum([k \in 1..n |-> Area(RegionFeature(k).geometry)])
            slack == tolerance * Sum([i \in 1..Len(Boundaries) |->
                                         Length(Boundaries[i].geometry)])
        IN  /\ \A a, b \in 1..n :
                a # b => RegionFeature(a).geometry.cells
                            \cap RegionFeature(b).geometry.cells = {}
            /\ \A a \in 1..n : RegionFeature(a).geometry.cells \subseteq BoundaryCells
            /\ total - divided_area <= slack
            /\ divided_area - total <= slack

\* the region polygon a step of the loop over the polygons has appended
NewRegion == group_features'[Len(group_features')]

\* C22: a region polygon with no marker inside gets the counter's current
\* value as its id, the counter then goes up by one, and the polygon's
\* properties are the base child properties; a region polygon with a marker
\* inside leaves the counter as it is. The polygon is emitted under that id.
C22_UnmarkedRegion ==
    [][(lpc = "regions" /\ li <= Len(polygons) /\ li' = li + 1) =>
          /\ Len(group_features') = Len(group_features) + 1
          /\ NewRegion.geometry = polygons[li]
          /\ ~NewRegion.is_group
          /\ IF Matching(polygons[li]) = <<>>
             THEN /\ NewRegion.id = region_id
                  /\ region_id' = region_id + 1
                  /\ NewRegion.properties = child_properties
             ELSE /\ region_id' = region_id
                  /\ NewRegion.id =
                       Matching(polygons[li])[Len(Matching(polygons[li]))].id]_vars

\* a divided group emitted with one region that holds a marker and one that
\* holds none, the second under the id that followed the ring's
C22_MarkedAndUnmarked ==
    /\ lpc = "done"
    /\ region_id = FirstRegionId + 2
    /\ \E j, k \in 1..Len(geo_features) :
          /\ emitted_from[j] > regions_from
          /\ emitted_from[k] > regions_from
          /\ Matching(EmittedSource(j).geometry) = <<>>
          /\ geo_features[j].id = FirstRegionId + 1
          /\ Matching(EmittedSource(k).geometry) # <<>>
          /\ geo_features[k].id < FirstRegionId

\* the polygons of the slide that are unannotated or boundary-flagged, and
\* not region-flagged
DividingPolygons ==
    {i \in 1..Len(feature_list) :
        /\ feature_list[i].geometry # NoGeometry
        /\ feature_list[i].geometry.type = "Polygon"
        /\ ~Get(feature_list[i].properties, "region", FALSE)
        /\ \/ Get(feature_list[i].properties, "annotation", "") = ""
           \/ Get(feature_list[i].properties, "boundary", FALSE)}

\* the emitted features made from a given feature of group_features
EmittedFrom(feature) ==
    {k \in 1..Len(geo_features) :
        /\ EmittedSource(k) = feature
        /\ geo_features[k].id = feature.id
        /\ geo_features[k].geometry =
              [type |-> feature.geometry.type,
               coordinates |-> mercator_transform(feature.geometry)]}

\* the emitted rings with a given geometry
EmittedRings(ring) ==
    {k \in 1..Len(geo_features) :
        /\ EmittedSource(k).geometry = ring
        /\ EmittedSource(k).properties = [layer |-> LayerId]}

\* C23: in a divided group, of every polygon that is unannotated or
\* boundary-flagged and not region-flagged, the boundary ring is among the
\* dividers; a ring feature is emitted for it exactly when it is not
\* invisible; and the polygon itself is emitted, under its own id and with
\* its own geometry, exactly when it is boundary-flagged.
C23_DividingPolygon ==
    (lpc = "done" /\ divided_area > 0) =>
        \A i \in DividingPolygons :
            LET feature == feature_list[i]
                ring == PolygonBoundary(feature.geometry)
                alike == {j \in DividingPolygons :
                            /\ feature_list[j].geometry = feature.geometry
                            /\ ~Get(feature_list[j].properties, "invisible", FALSE)}
            IN  /\ \E d \in 1..Len(dividers) : dividers[d] = ring
                /\ Cardinality(EmittedRings(ring)) = Cardinality(alike)
                /\ Cardinality(EmittedFrom(feature)) =
                       IF Get(feature.properties, "boundary", FALSE) THEN 1 ELSE 0

\* a divided group emitted with its boundary, an unannotated polygon that
\* shows its ring and an invisible one that shows none
C23_ShownAndInvisible ==
    /\ lpc = "done"
    /\ divided_area > 0
    /\ \E i, j \in DividingPolygons :
          /\ ~Get(feature_list[i].properties, "boundary", FALSE)
          /\ ~Get(feature_list[i].properties, "invisible", FALSE)
          /\ EmittedRings(PolygonBoundary(feature_list[i].geometry)) # {}
          /\ Get(feature_list[j].properties, "invisible", FALSE)
          /\ EmittedRings(PolygonBoundary(feature_list[j].geometry)) = {}

\* the children-flagged features of the slide
ChildrenFlagged ==
    {i \in 1..Len(feature_list) : Get(feature_list[i].properties, "children", FALSE)}

\* the emitted features that come from plain shapes of the slide: shapes with
\* none of the boundary, children, group and region flags
PlainEmitted ==
    {k \in 1..Len(geo_features) :
        /\ \E i \in 1..Len(feature_list) : feature_list[i] = EmittedSource(k)
        /\ \A flag \in {"boundary", "children", "group", "region"} :
              ~Get(EmittedSource(k).properties, flag, FALSE)}

\* C26: a children-flagged feature is not itself emitted, in a divided group
\* or in an undivided one, and each of its properties is among the
\* properties of every emitted plain sibling, before it or after it in the
\* list.
C26_ChildrenConsumed ==
    lpc = "done" =>
        /\ \A k \in 1..Len(geo_features) :
              \A i \in ChildrenFlagged : EmittedSource(k) # feature_list[i]
        /\ \A i \in ChildrenFlagged, k \in PlainEmitted :
              \A key \in DOMAIN feature_list[i].properties \ NotEmitted :
                  /\ key \in DOMAIN geo_features[k].properties
                  /\ key \notin DOMAIN EmittedSource(k).properties =>
                        geo_features[k].properties[key] = child_properties[key]

\* a line of the slide that the second loop takes as a divider without its
\* being annotated
UnannotatedDividerLine(feature) ==
    /\ \E i \in 1..Len(feature_list) : feature_list[i] = feature
    /\ feature.geometry # NoGeometry
    /\ feature.geometry.type = "LineString"
    /\ ~Get(feature.properties, "region", FALSE)
    /\ Get(feature.properties, "annotation", "") = ""

\* C20: in a divided group an unannotated line used as a divider goes to the
\* dividers only: it is not among the features emitted for the group.
C20_DividerLineNotEmitted ==
    divided_area > 0 =>
        \A k \in 1..Len(geo_features) : ~UnannotatedDividerLine(EmittedSource(k))

\* the features of group_features whose id was taken from the counter: the
\* rings of the dividing polygons, and the region polygons without a marker
CounterTaken ==
    {i \in 1..Len(group_features) :
        /\ group_features[i].geometry # NoGeometry
        /\ \/ "edges" \in DOMAIN group_features[i].geometry
           \/ /\ lpc \in {"regions", "emit", "done"}
              /\ divided_area > 0
              /\ i > regions_from
              /\ Matching(group_features[i].geometry) = <<>>}

\* C19: the ids taken from the layer's counter start at 10000 and go up by
\* one with each id taken, and no id taken from the counter is the id of an
\* emitted feature that has its id from a shape (a region polygon with a
\* marker's id included).
C19_CounterIdsApart ==
    /\ region_id >= FirstRegionId
    /\ runs = <<>> =>
          \A i \in CounterTaken :
              group_features[i].id =
                  FirstRegionId + Cardinality({j \in CounterTaken : j < i})
    /\ \A i \in CounterTaken :
          group_features[i].id =
              region_id - Cardinality({j \in CounterTaken : j >= i})
    /\ \A k \in 1..Len(geo_features) :
          emitted_from[k] \notin CounterTaken =>
              geo_features[k].id \notin FirstRegionId..(region_id - 1)

\* the numeric ids of the features a run emitted, in order
EmittedIds(run) == [k \in 1..Len(run) |-> run[k].id]

\* C17: every run of process() on the same layer with the same shapes emits
\* the same features with the same numeric ids.
C17_SameIdsEachRun ==
    \A i, j \in 1..Len(runs) :
        /\ Len(runs[i]) = Len(runs[j])
        /\ EmittedIds(runs[i]) = EmittedIds(runs[j])

====
